---- MODULE Spec2Model ----
(***************************************************************************)
(* MTG Top 8 / Day 2 calculator.                                           *)
(*                                                                         *)
(* Sources:                                                                *)
(*   src/day2.js          Day 2 page (calculate, generateScenarios)        *)
(*   src/script.js        Top 8 page without the round tracker             *)
(*   src/unnamed/part_000 Top 8 page with round tracker and OMW estimate   *)
(*                                                                         *)
(* The pure functions of the engine are operators; each is exercised by a  *)
(* specification whose initial states draw the arguments and whose actions *)
(* apply the function and store what it returned.                          *)
(***************************************************************************)
EXTENDS Integers, Sequences, FiniteSets

VARIABLES
    enum,   \* scenario enumerators: argument, functions applied so far, what each returned
    day2,   \* Day 2 page: the five inputs and what calculate() rendered
    est,    \* estimateTop8Probability: arguments and returned probability
    omw,    \* estimateOMW: arguments and returned estimate
    top8    \* Top 8 page: inputs, toggle, round tracker and what calculate() rendered

vars == <<enum, day2, est, omw, top8>>

\* A part of the state that a specification does not exercise.
Idle == [active |-> FALSE]

(***************************************************************************)
(* Bounds of the model.                                                    *)
(***************************************************************************)
\* Largest argument handed to the scenario enumerators.
MaxRemaining == 8
\* Day 2 page: largest values typed into the five number inputs.
MaxDay2Rounds == 9
MaxThreshold == 20
MaxDay2Wins == 5
MaxDay2Losses == 2
MaxDay2Draws == 3
\* estimateTop8Probability: largest record and round count handed to it.
MaxWins == 11
MaxLosses == 1
MaxDraws == 2
MaxTotalRounds == 11
\* estimateOMW: longest result sequence and largest round count handed to it.
MaxResults == 5
MaxOmwRounds == 6

(***************************************************************************)
(* Scenario enumerators.  The five functions are the same pair of nested   *)
(* loops: w from n down to 0, d from n - w down to 0, l the remainder.     *)
(***************************************************************************)

\* Mutant of generateScenarios: the inner loop stops at d > 0.
generateScenarios_InnerStopsEarly(remaining) ==
    LET RECURSIVE Inner(_, _, _)
        Inner(w, d, acc) ==
            IF d > 0
            THEN Inner(w, d - 1, Append(acc,
                     [extraWins |-> w, extraLosses |-> remaining - w - d, extraDraws |-> d]))
            ELSE acc
        RECURSIVE Outer(_, _)
        Outer(w, acc) ==
            IF w >= 0 THEN Outer(w - 1, Inner(w, remaining - w, acc)) ELSE acc
    IN  Outer(remaining, <<>>)

\* day2.js generateScenarios
generateScenarios(remaining) ==
    LET RECURSIVE Inner(_, _, _)
        Inner(w, d, acc) ==
            IF d >= 0
            THEN Inner(w, d - 1, Append(acc,
                     [extraWins |-> w, extraLosses |-> remaining - w - d, extraDraws |-> d]))
            ELSE acc
        RECURSIVE Outer(_, _)
        Outer(w, acc) ==
            IF w >= 0 THEN Outer(w - 1, Inner(w, remaining - w, acc)) ELSE acc
    IN  Outer(remaining, <<>>)

\* part_000 generateRemainingScenarios (round-tracker variant)
generateRemainingScenarios(remaining) ==
    LET RECURSIVE Inner(_, _, _)
        Inner(w, d, acc) ==
            IF d >= 0
            THEN Inner(w, d - 1, Append(acc,
                     [extraWins |-> w, extraLosses |-> remaining - w - d, extraDraws |-> d]))
            ELSE acc
        RECURSIVE Outer(_, _)
        Outer(w, acc) ==
            IF w >= 0 THEN Outer(w - 1, Inner(w, remaining - w, acc)) ELSE acc
    IN  Outer(remaining, <<>>)

\* script.js generateRemainingScenarios
script_generateRemainingScenarios(remaining) ==
    LET RECURSIVE Inner(_, _, _)
        Inner(w, d, acc) ==
            IF d >= 0
            THEN Inner(w, d - 1, Append(acc,
                     [extraWins |-> w, extraLosses |-> remaining - w - d, extraDraws |-> d]))
            ELSE acc
        RECURSIVE Outer(_, _)
        Outer(w, acc) ==
            IF w >= 0 THEN Outer(w - 1, Inner(w, remaining - w, acc)) ELSE acc
    IN  Outer(remaining, <<>>)

\* Mutant of generateAllRecords: the inner loop counts draws upwards.
generateAllRecords_DrawsAscending(rounds) ==
    LET RECURSIVE Inner(_, _, _)
        Inner(w, d, acc) ==
            IF d <= rounds - w
            THEN Inner(w, d + 1, Append(acc,
                     [wins |-> w, losses |-> rounds - w - d, draws |-> d]))
            ELSE acc
        RECURSIVE Outer(_, _)
        Outer(w, acc) ==
            IF w >= 0 THEN Outer(w - 1, Inner(w, 0, acc)) ELSE acc
    IN  Outer(rounds, <<>>)

\* part_000 generateAllRecords (round-tracker variant)
generateAllRecords(rounds) ==
    LET RECURSIVE Inner(_, _, _)
        Inner(w, d, acc) ==
            IF d >= 0
            THEN Inner(w, d - 1, Append(acc,
                     [wins |-> w, losses |-> rounds - w - d, draws |-> d]))
            ELSE acc
        RECURSIVE Outer(_, _)
        Outer(w, acc) ==
            IF w >= 0 THEN Outer(w - 1, Inner(w, rounds - w, acc)) ELSE acc
    IN  Outer(rounds, <<>>)

\* script.js generateAllRecords
script_generateAllRecords(rounds) ==
    LET RECURSIVE Inner(_, _, _)
        Inner(w, d, acc) ==
            IF d >= 0
            THEN Inner(w, d - 1, Append(acc,
                     [wins |-> w, losses |-> rounds - w - d, draws |-> d]))
            ELSE acc
        RECURSIVE Outer(_, _)
        Outer(w, acc) ==
            IF w >= 0 THEN Outer(w - 1, Inner(w, rounds - w, acc)) ELSE acc
    IN  Outer(rounds, <<>>)

\* The enumerators by name: the three that return scenarios, the two that return records.
ScenarioFns == {"day2.generateScenarios", "script.generateRemainingScenarios",
                "tracker.generateRemainingScenarios"}
RecordFns == {"script.generateAllRecords", "tracker.generateAllRecords"}

EnumInit ==
    /\ \E n \in 0..MaxRemaining :
           enum = [active |-> TRUE, arg |-> n, called |-> {},
                   out |-> [f \in ScenarioFns \cup RecordFns |-> <<>>]]
    /\ day2 = Idle
    /\ est = Idle
    /\ omw = Idle
    /\ top8 = Idle

EnumReturn(f, value) ==
    /\ enum.active
    /\ f \notin enum.called
    /\ enum' = [enum EXCEPT !.called = @ \cup {f}, !.out[f] = value]
    /\ UNCHANGED <<day2, est, omw, top8>>

CallDay2GenerateScenarios ==
    EnumReturn("day2.generateScenarios", generateScenarios(enum.arg))

CallScriptGenerateRemainingScenarios ==
    EnumReturn("script.generateRemainingScenarios", script_generateRemainingScenarios(enum.arg))

CallTrackerGenerateRemainingScenarios ==
    EnumReturn("tracker.generateRemainingScenarios", generateRemainingScenarios(enum.arg))

CallScriptGenerateAllRecords ==
    EnumReturn("script.generateAllRecords", script_generateAllRecords(enum.arg))

CallTrackerGenerateAllRecords ==
    EnumReturn("tracker.generateAllRecords", generateAllRecords(enum.arg))

EnumNext ==
    \/ CallDay2GenerateScenarios
    \/ CallScriptGenerateRemainingScenarios
    \/ CallTrackerGenerateRemainingScenarios
    \/ CallScriptGenerateAllRecords
    \/ CallTrackerGenerateAllRecords

SpecEnum == EnumInit /\ [][EnumNext]_vars

(***************************************************************************)
(* C1.  Every scenario enumerator, applied to remaining >= 0, returns      *)
(* exactly (remaining+1)(remaining+2)/2 triples; each triple has           *)
(* non-negative extraWins, extraLosses, extraDraws that sum to remaining;  *)
(* no triple appears twice.                                                *)
(***************************************************************************)
C1_EnumeratorCountSumDistinct ==
    enum.active =>
        \A f \in enum.called \cap ScenarioFns :
            LET s == enum.out[f]
                n == enum.arg
            IN  /\ Len(s) = ((n + 1) * (n + 2)) \div 2
                /\ \A i \in 1..Len(s) :
                       /\ s[i].extraWins >= 0
                       /\ s[i].extraLosses >= 0
                       /\ s[i].extraDraws >= 0
                       /\ s[i].extraWins + s[i].extraLosses + s[i].extraDraws = n
                /\ \A i, j \in 1..Len(s) : i # j => s[i] # s[j]

\* All three scenario enumerators have returned for an argument with several rows per win count.
C1_Witness ==
    /\ enum.active
    /\ enum.arg = 3
    /\ ScenarioFns \subseteq enum.called
    /\ Len(enum.out["day2.generateScenarios"]) = 10

(***************************************************************************)
(* C2.  The output order is fixed: extraWins never increases along the     *)
(* sequence; between consecutive entries with equal extraWins, extraDraws  *)
(* strictly decreases; the first entry is all wins and the last is all     *)
(* losses.  generateAllRecords(n) lists the same (wins, losses, draws) in  *)
(* the same order as the remaining-rounds enumerator called with n.        *)
(***************************************************************************)
C2_OrderOf(s, n) ==
    /\ Len(s) >= 1
    /\ s[1] = [extraWins |-> n, extraLosses |-> 0, extraDraws |-> 0]
    /\ s[Len(s)] = [extraWins |-> 0, extraLosses |-> n, extraDraws |-> 0]
    /\ \A i \in 1..(Len(s) - 1) :
           /\ s[i + 1].extraWins <= s[i].extraWins
           /\ s[i + 1].extraWins = s[i].extraWins => s[i + 1].extraDraws < s[i].extraDraws

C2_SameTriples(recs, scen) ==
    /\ Len(recs) = Len(scen)
    /\ \A i \in 1..Len(recs) :
           /\ recs[i].wins = scen[i].extraWins
           /\ recs[i].losses = scen[i].extraLosses
           /\ recs[i].draws = scen[i].extraDraws

C2_EnumeratorOrder ==
    enum.active =>
        /\ \A f \in enum.called \cap ScenarioFns : C2_OrderOf(enum.out[f], enum.arg)
        /\ \A r \in enum.called \cap RecordFns :
               \A f \in enum.called \cap ScenarioFns :
                   C2_SameTriples(enum.out[r], enum.out[f])

\* generateAllRecords and the scenario enumerators have all returned for the same n >= 2.
C2_Witness ==
    /\ enum.active
    /\ enum.arg = 4
    /\ enum.called = ScenarioFns \cup RecordFns
    /\ enum.out["tracker.generateAllRecords"][2] = [wins |-> 3, losses |-> 0, draws |-> 1]

(***************************************************************************)
(* Day 2 page (day2.js).  The inputs are the integers parseInt(...) || 0   *)
(* reads from the five number inputs, taken non-negative.                  *)
(***************************************************************************)

\* day2.js getMatchPoints
day2_getMatchPoints(wins, draws) == wins * 3 + draws * 1

\* Mutant of getDay2Status: the Day 2 band starts one point too late.
getDay2Status_ExactIsClose(points, threshold) ==
    LET diff == points - threshold
    IN  IF diff >= 3 THEN [text |-> "Safe", class |-> "status-safe"]
        ELSE IF diff >= 1 THEN [text |-> "Day 2", class |-> "status-likely"]
        ELSE IF diff >= -3 THEN [text |-> "Close", class |-> "status-possible"]
        ELSE IF diff >= -6 THEN [text |-> "Tough", class |-> "status-unlikely"]
        ELSE [text |-> "Eliminated", class |-> "status-out"]

\* day2.js getDay2Status
getDay2Status(points, threshold) ==
    LET diff == points - threshold
    IN  IF diff >= 3 THEN [text |-> "Safe", class |-> "status-safe"]
        ELSE IF diff >= 0 THEN [text |-> "Day 2", class |-> "status-likely"]
        ELSE IF diff >= -3 THEN [text |-> "Close", class |-> "status-possible"]
        ELSE IF diff >= -6 THEN [text |-> "Tough", class |-> "status-unlikely"]
        ELSE [text |-> "Eliminated", class |-> "status-out"]

\* Math.min(100, Math.round(x / y * 100)) for x >= 0, y > 0: round half up.
RoundedPercent(x, y) ==
    LET r == (200 * x + y) \div (2 * y)
    IN  IF r > 100 THEN 100 ELSE r

\* day2.js buildPointsBarHTML: the bar's style class, its label and its width.
\* The label is '+' + diff, 'Exact' or '' + diff: its kind and the number it prints.
buildPointsBarHTML(points, threshold) ==
    LET pct == IF threshold > 0 THEN RoundedPercent(points, threshold) ELSE 0
        diff == points - threshold
        cls == IF diff >= 3 THEN "prob-high"
               ELSE IF diff >= 0 THEN "prob-likely"
               ELSE IF diff >= -3 THEN "prob-medium"
               ELSE IF diff >= -6 THEN "prob-low"
               ELSE "prob-none"
        label == IF diff >= 3 THEN [kind |-> "plus", diff |-> diff]
                 ELSE IF diff >= 0
                      THEN (IF diff = 0 THEN [kind |-> "Exact", diff |-> diff]
                            ELSE [kind |-> "plus", diff |-> diff])
                 ELSE [kind |-> "plain", diff |-> diff]
    IN  [cls |-> cls, label |-> label, width |-> pct]

\* Mutant of Day2MinWinsLoop: the threshold has to be exceeded, not reached.
RECURSIVE Day2MinWinsLoop_StrictlyAbove(_, _, _, _)
Day2MinWinsLoop_StrictlyAbove(testW, currentPoints, remaining, threshold) ==
    IF testW <= remaining
    THEN IF currentPoints + testW * 3 + (remaining - testW) * 1 > threshold
         THEN testW
         ELSE Day2MinWinsLoop_StrictlyAbove(testW + 1, currentPoints, remaining, threshold)
    ELSE -1

\* day2.js calculate, lines 180-192: linear search for the least number of wins
\* that reaches the threshold when the other remaining rounds are drawn; -1 if none.
RECURSIVE Day2MinWinsLoop(_, _, _, _)
Day2MinWinsLoop(testW, currentPoints, remaining, threshold) ==
    IF testW <= remaining
    THEN IF currentPoints + testW * 3 + (remaining - testW) * 1 >= threshold
         THEN testW
         ELSE Day2MinWinsLoop(testW + 1, currentPoints, remaining, threshold)
    ELSE -1

\* Mutant of Day2Locals: the best case counts one point per remaining round.
Day2Locals_BestCaseDraws(totalRounds, threshold, currentWins, currentLosses, currentDraws) ==
    LET currentPoints == day2_getMatchPoints(currentWins, currentDraws)
        roundsPlayed == currentWins + currentLosses + currentDraws
        remaining == totalRounds - roundsPlayed
        alreadyIn == currentPoints >= threshold
        minWinsNeeded == IF ~alreadyIn
                         THEN Day2MinWinsLoop(0, currentPoints, remaining, threshold)
                         ELSE -1
        drawsWithMinWins == IF minWinsNeeded >= 0 THEN remaining - minWinsNeeded ELSE 0
        minWinsLoseRest == IF minWinsNeeded >= 0 THEN currentPoints + minWinsNeeded * 3 ELSE 0
    IN  [currentPoints |-> currentPoints,
         roundsPlayed |-> roundsPlayed,
         remaining |-> remaining,
         maxPossiblePoints |-> currentPoints + (remaining * 1),
         drawAllPoints |-> currentPoints + remaining,
         alreadyIn |-> alreadyIn,
         minWinsNeeded |-> minWinsNeeded,
         drawsWithMinWins |-> drawsWithMinWins,
         canLoseRest |-> minWinsLoseRest >= threshold]

\* day2.js calculate, lines 145-147 and 171-197: the values the verdict is chosen from.
Day2Locals(totalRounds, threshold, currentWins, currentLosses, currentDraws) ==
    LET currentPoints == day2_getMatchPoints(currentWins, currentDraws)
        roundsPlayed == currentWins + currentLosses + currentDraws
        remaining == totalRounds - roundsPlayed
        alreadyIn == currentPoints >= threshold
        minWinsNeeded == IF ~alreadyIn
                         THEN Day2MinWinsLoop(0, currentPoints, remaining, threshold)
                         ELSE -1
        drawsWithMinWins == IF minWinsNeeded >= 0 THEN remaining - minWinsNeeded ELSE 0
        minWinsLoseRest == IF minWinsNeeded >= 0 THEN currentPoints + minWinsNeeded * 3 ELSE 0
    IN  [currentPoints |-> currentPoints,
         roundsPlayed |-> roundsPlayed,
         remaining |-> remaining,
         maxPossiblePoints |-> currentPoints + (remaining * 3),
         drawAllPoints |-> currentPoints + remaining,
         alreadyIn |-> alreadyIn,
         minWinsNeeded |-> minWinsNeeded,
         drawsWithMinWins |-> drawsWithMinWins,
         canLoseRest |-> minWinsLoseRest >= threshold]

\* Mutant of Day2Verdict: the draw-out test is tried before the already-qualified test.
Day2Verdict_DrawOutFirst(c, threshold) ==
    IF c.drawAllPoints >= threshold
    THEN [kind |-> "drawAll", class |-> "strategy-draw"]
    ELSE IF c.alreadyIn
    THEN [kind |-> "alreadyQualified", class |-> "strategy-draw"]
    ELSE IF c.maxPossiblePoints < threshold
    THEN [kind |-> "eliminated", class |-> "strategy-must-win"]
    ELSE IF c.minWinsNeeded = 1 /\ c.canLoseRest
    THEN [kind |-> "oneMoreWin", class |-> "strategy-mixed"]
    ELSE IF c.minWinsNeeded >= 1 /\ c.minWinsNeeded <= c.remaining
    THEN (IF c.canLoseRest
          THEN [kind |-> "needWinsRestFree", class |-> "strategy-play"]
          ELSE [kind |-> "needWinsDrawRest", class |-> "strategy-play"])
    ELSE [kind |-> "mustWinAll", class |-> "strategy-must-win"]

\* Mutant of Day2Verdict: the elimination test is missing.
Day2Verdict_NoEliminationTest(c, threshold) ==
    IF c.alreadyIn
    THEN [kind |-> "alreadyQualified", class |-> "strategy-draw"]
    ELSE IF c.drawAllPoints >= threshold
    THEN [kind |-> "drawAll", class |-> "strategy-draw"]
    ELSE IF c.minWinsNeeded = 1 /\ c.canLoseRest
    THEN [kind |-> "oneMoreWin", class |-> "strategy-mixed"]
    ELSE IF c.minWinsNeeded >= 1 /\ c.minWinsNeeded <= c.remaining
    THEN (IF c.canLoseRest
          THEN [kind |-> "needWinsRestFree", class |-> "strategy-play"]
          ELSE [kind |-> "needWinsDrawRest", class |-> "strategy-play"])
    ELSE [kind |-> "mustWinAll", class |-> "strategy-must-win"]

\* Mutant of Day2Verdict: the 'need at least N wins' verdict never looks at canLoseRest.
Day2Verdict_RestAlwaysFree(c, threshold) ==
    IF c.alreadyIn
    THEN [kind |-> "alreadyQualified", class |-> "strategy-draw"]
    ELSE IF c.maxPossiblePoints < threshold
    THEN [kind |-> "eliminated", class |-> "strategy-must-win"]
    ELSE IF c.drawAllPoints >= threshold
    THEN [kind |-> "drawAll", class |-> "strategy-draw"]
    ELSE IF c.minWinsNeeded = 1 /\ c.canLoseRest
    THEN [kind |-> "oneMoreWin", class |-> "strategy-mixed"]
    ELSE IF c.minWinsNeeded >= 1 /\ c.minWinsNeeded <= c.remaining
    THEN [kind |-> "needWinsRestFree", class |-> "strategy-play"]
    ELSE [kind |-> "mustWinAll", class |-> "strategy-must-win"]

\* day2.js calculate, lines 204-233: the verdict, first match wins.
Day2Verdict(c, threshold) ==
    IF c.alreadyIn
    THEN [kind |-> "alreadyQualified", class |-> "strategy-draw"]
    ELSE IF c.maxPossiblePoints < threshold
    THEN [kind |-> "eliminated", class |-> "strategy-must-win"]
    ELSE IF c.drawAllPoints >= threshold
    THEN [kind |-> "drawAll", class |-> "strategy-draw"]
    ELSE IF c.minWinsNeeded = 1 /\ c.canLoseRest
    THEN [kind |-> "oneMoreWin", class |-> "strategy-mixed"]
    ELSE IF c.minWinsNeeded >= 1 /\ c.minWinsNeeded <= c.remaining
    THEN (IF c.canLoseRest
          THEN [kind |-> "needWinsRestFree", class |-> "strategy-play"]
          ELSE [kind |-> "needWinsDrawRest", class |-> "strategy-play"])
    ELSE [kind |-> "mustWinAll", class |-> "strategy-must-win"]

\* day2.js calculate, lines 241-271: one table row per scenario.
Day2Row(sc, remaining, threshold, currentWins, currentLosses, currentDraws) ==
    LET finalW == currentWins + sc.extraWins
        finalL == currentLosses + sc.extraLosses
        finalD == currentDraws + sc.extraDraws
        pts == day2_getMatchPoints(finalW, finalD)
    IN  [extraWins |-> sc.extraWins, extraLosses |-> sc.extraLosses,
         extraDraws |-> sc.extraDraws,
         finalW |-> finalW, finalL |-> finalL, finalD |-> finalD,
         pts |-> pts,
         bar |-> buildPointsBarHTML(pts, threshold),
         status |-> getDay2Status(pts, threshold),
         isAllDraw |-> (sc.extraDraws = remaining /\ sc.extraWins = 0 /\ sc.extraLosses = 0),
         isAllWin |-> (sc.extraWins = remaining /\ sc.extraLosses = 0 /\ sc.extraDraws = 0),
         makesDay2 |-> pts >= threshold]

\* What the page shows before the first calculation.
Day2NothingRendered ==
    [resultsHidden |-> TRUE, alert |-> "none",
     verdict |-> [kind |-> "none", class |-> "none"],
     calc |-> Day2Locals(0, 0, 0, 0, 0),
     threshold |-> 0,
     scenariosBody |-> <<>>]

Day2Init ==
    /\ \E tr \in 0..MaxDay2Rounds, th \in 0..MaxThreshold,
          w \in 0..MaxDay2Wins, l \in 0..MaxDay2Losses, d \in 0..MaxDay2Draws :
           day2 = [active |-> TRUE,
                   totalRoundsInput |-> tr, thresholdInput |-> th,
                   winsInput |-> w, lossesInput |-> l, drawsInput |-> d,
                   shown |-> Day2NothingRendered]
    /\ enum = Idle
    /\ est = Idle
    /\ omw = Idle
    /\ top8 = Idle

\* Mutant of Day2AfterAlert: the results section is shown before the validation.
Day2AfterAlert_ResultsShownFirst(d, message) ==
    [d EXCEPT !.shown.alert = message, !.shown.resultsHidden = FALSE]

\* day2.js calculate, lines 150-165: alert(...); return.
Day2AfterAlert(d, message) == [d EXCEPT !.shown.alert = message]

\* day2.js calculate, lines 150-165: a guard fails, an alert is shown, nothing is rendered.
Day2CalculateRejected ==
    /\ day2.active
    /\ LET totalRounds == day2.totalRoundsInput
           threshold == day2.thresholdInput
           roundsPlayed == day2.winsInput + day2.lossesInput + day2.drawsInput
           message == IF totalRounds < 1 THEN "Enter the total number of rounds"
                      ELSE IF threshold < 1 THEN "Enter the Day 2 threshold"
                      ELSE IF roundsPlayed > totalRounds THEN "record exceeds rounds"
                      ELSE IF roundsPlayed = 0 THEN "at least 1 round played"
                      ELSE "none"
       IN  /\ message # "none"
           /\ day2' = Day2AfterAlert(day2, message)
    /\ UNCHANGED <<enum, est, omw, top8>>

\* day2.js calculate, lines 167-278: every guard holds, verdict and table are rendered.
Day2CalculateRendered ==
    /\ day2.active
    /\ LET totalRounds == day2.totalRoundsInput
           threshold == day2.thresholdInput
           currentWins == day2.winsInput
           currentLosses == day2.lossesInput
           currentDraws == day2.drawsInput
           c == Day2Locals(totalRounds, threshold, currentWins, currentLosses, currentDraws)
           scenarios == generateScenarios(c.remaining)
       IN  /\ ~(totalRounds < 1)
           /\ ~(threshold < 1)
           /\ ~(c.roundsPlayed > totalRounds)
           /\ ~(c.roundsPlayed = 0)
           /\ day2' = [day2 EXCEPT
                  !.shown = [resultsHidden |-> FALSE,
                             alert |-> "none",
                             verdict |-> Day2Verdict(c, threshold),
                             calc |-> c,
                             threshold |-> threshold,
                             scenariosBody |->
                                 [i \in 1..Len(scenarios) |->
                                     Day2Row(scenarios[i], c.remaining, threshold,
                                             currentWins, currentLosses, currentDraws)]]]
    /\ UNCHANGED <<enum, est, omw, top8>>

Day2Next ==
    \/ Day2CalculateRejected
    \/ Day2CalculateRendered

SpecDay2 == Day2Init /\ [][Day2Next]_vars

(***************************************************************************)
(* C3.  Day 2 calculate(): whenever the guards hold and currentPoints >=   *)
(* threshold, the verdict is "already qualified", for every number of      *)
(* remaining rounds, 0 included.                                           *)
(***************************************************************************)
C3_AlreadyQualifiedFirst ==
    (day2.active /\ ~day2.shown.resultsHidden
        /\ day2_getMatchPoints(day2.winsInput, day2.drawsInput) >= day2.thresholdInput)
    => day2.shown.verdict.kind = "alreadyQualified"

\* A rendered calculation with the threshold reached and no round left, where
\* drawing out would reach it as well.
C3_Witness ==
    /\ day2.active /\ ~day2.shown.resultsHidden
    /\ day2.winsInput * 3 + day2.drawsInput >= day2.thresholdInput
    /\ day2.totalRoundsInput = day2.winsInput + day2.lossesInput + day2.drawsInput
    /\ day2.shown.calc.remaining = 0
    /\ day2.shown.verdict.kind = "alreadyQualified"

(***************************************************************************)
(* C4.  Day 2 calculate(): whenever the guards hold and currentPoints +    *)
(* remaining*3 < threshold, the verdict is "mathematically eliminated";    *)
(* this covers remaining = 0 with currentPoints < threshold.               *)
(***************************************************************************)
C4_EliminatedWhenMaxShort ==
    (day2.active /\ ~day2.shown.resultsHidden
        /\ LET played == day2.winsInput + day2.lossesInput + day2.drawsInput
               points == day2.winsInput * 3 + day2.drawsInput
           IN  points + (day2.totalRoundsInput - played) * 3 < day2.thresholdInput)
    => day2.shown.verdict.kind = "eliminated"

\* A rendered calculation with no round left and the threshold missed.
C4_Witness ==
    /\ day2.active /\ ~day2.shown.resultsHidden
    /\ day2.totalRoundsInput = day2.winsInput + day2.lossesInput + day2.drawsInput
    /\ day2.winsInput * 3 + day2.drawsInput < day2.thresholdInput
    /\ day2.shown.verdict.kind = "eliminated"

\* A rendered calculation with rounds left whose best case is still short.
C4_WitnessRoundsLeft ==
    /\ day2.active /\ ~day2.shown.resultsHidden
    /\ day2.shown.calc.remaining >= 2
    /\ day2.shown.calc.maxPossiblePoints < day2.thresholdInput
    /\ day2.shown.verdict.kind = "eliminated"

(***************************************************************************)
(* Top 8 estimator (script.js, and part_000 with the OMW adjustment).      *)
(*                                                                         *)
(* An OMW estimate is a fraction num/den with den > 0, or not given        *)
(* (undefined or null in the source).  A comparison of the estimate with a *)
(* decimal literal k/100 is the comparison of num*100 with k*den.          *)
(***************************************************************************)

NoOMW == [given |-> FALSE, num |-> 0, den |-> 1]
OMW(num, den) == [given |-> TRUE, num |-> num, den |-> den]

\* omwEstimate > k/100 and omwEstimate < k/100
OmwAbove(o, k) == o.num * 100 > k * o.den
OmwBelow(o, k) == o.num * 100 < k * o.den

\* part_000 getRounds: 0 below 2 players, else Math.ceil(Math.log2(players)),
\* the least r with 2^r >= players.
RECURSIVE CeilLog2From(_, _)
CeilLog2From(r, players) == IF 2^r >= players THEN r ELSE CeilLog2From(r + 1, players)

\* Mutant of getRounds: Math.floor(Math.log2(players)) + 1.
getRounds_FloorPlusOne(players) == IF players < 2 THEN 0 ELSE CeilLog2From(0, players + 1)

getRounds(players) == IF players < 2 THEN 0 ELSE CeilLog2From(0, players)

\* script.js getRounds
script_getRounds(players) == IF players < 2 THEN 0 ELSE CeilLog2From(0, players)

\* part_000 getMatchPoints
getMatchPoints(wins, draws) == wins * 3 + draws * 1

\* script.js getMatchPoints
script_getMatchPoints(wins, draws) == wins * 3 + draws * 1

\* Mutant of ThresholdPoints: the 128-player bucket carries the 64-player threshold plus 3.
ThresholdPoints_Bucket128Is18(numPlayers, totalRounds) ==
    IF numPlayers <= 16 THEN 9
    ELSE IF numPlayers <= 32 THEN 12
    ELSE IF numPlayers <= 64 THEN 15
    ELSE IF numPlayers <= 128 THEN 18
    ELSE IF numPlayers <= 256 THEN 18
    ELSE IF numPlayers <= 512 THEN 21
    ELSE IF numPlayers <= 1024 THEN 24
    ELSE (totalRounds - 2) * 3

\* part_000 estimateTop8Probability, the threshold table (numPlayers > 8).
ThresholdPoints(numPlayers, totalRounds) ==
    IF numPlayers <= 16 THEN 9
    ELSE IF numPlayers <= 32 THEN 12
    ELSE IF numPlayers <= 64 THEN 15
    ELSE IF numPlayers <= 128 THEN 16
    ELSE IF numPlayers <= 256 THEN 18
    ELSE IF numPlayers <= 512 THEN 21
    ELSE IF numPlayers <= 1024 THEN 24
    ELSE (totalRounds - 2) * 3

\* Mutant of BaseProb: the digits of 92 are transposed.
BaseProb_DigitsTransposed(diff) ==
    IF diff >= 6 THEN 100
    ELSE IF diff >= 3 THEN 98
    ELSE IF diff >= 1 THEN 29
    ELSE IF diff = 0 THEN 75
    ELSE IF diff = -1 THEN 50
    ELSE IF diff = -2 THEN 25
    ELSE IF diff = -3 THEN 10
    ELSE IF diff = -4 THEN 3
    ELSE IF diff = -5 THEN 1
    ELSE 0

\* Mutant of BaseProb: the row for diff = -4 is missing.
BaseProb_NoMinusFour(diff) ==
    IF diff >= 6 THEN 100
    ELSE IF diff >= 3 THEN 98
    ELSE IF diff >= 1 THEN 92
    ELSE IF diff = 0 THEN 75
    ELSE IF diff = -1 THEN 50
    ELSE IF diff = -2 THEN 25
    ELSE IF diff = -3 THEN 10
    ELSE IF diff = -5 THEN 1
    ELSE 0

\* part_000 estimateTop8Probability, the base probabilities.
BaseProb(diff) ==
    IF diff >= 6 THEN 100
    ELSE IF diff >= 3 THEN 98
    ELSE IF diff >= 1 THEN 92
    ELSE IF diff = 0 THEN 75
    ELSE IF diff = -1 THEN 50
    ELSE IF diff = -2 THEN 25
    ELSE IF diff = -3 THEN 10
    ELSE IF diff = -4 THEN 3
    ELSE IF diff = -5 THEN 1
    ELSE 0

\* Mutant of OmwAdjustment: the "slightly below average" band is tested before the
\* "poor" band, which is then never reached.
OmwAdjustment_BelowAverageFirst(omwEstimate, diff) ==
    IF OmwAbove(omwEstimate, 55)
    THEN (IF diff = 0 THEN 10 ELSE IF diff = -1 THEN 10 ELSE 5)
    ELSE IF OmwBelow(omwEstimate, 45)
    THEN (IF diff = 0 THEN -8 ELSE IF diff = -1 THEN -5 ELSE -3)
    ELSE IF OmwAbove(omwEstimate, 50)
    THEN (IF diff = 0 THEN 5 ELSE IF diff = -1 THEN 4 ELSE 2)
    ELSE IF OmwBelow(omwEstimate, 40)
    THEN (IF diff = 0 THEN -15 ELSE IF diff = -1 THEN -10 ELSE -8)
    ELSE 0

\* part_000 estimateTop8Probability, the adjustment chosen inside the tiebreaker zone.
OmwAdjustment(omwEstimate, diff) ==
    IF OmwAbove(omwEstimate, 55)
    THEN (IF diff = 0 THEN 10 ELSE IF diff = -1 THEN 10 ELSE 5)
    ELSE IF OmwBelow(omwEstimate, 40)
    THEN (IF diff = 0 THEN -15 ELSE IF diff = -1 THEN -10 ELSE -8)
    ELSE IF OmwAbove(omwEstimate, 50)
    THEN (IF diff = 0 THEN 5 ELSE IF diff = -1 THEN 4 ELSE 2)
    ELSE IF OmwBelow(omwEstimate, 45)
    THEN (IF diff = 0 THEN -8 ELSE IF diff = -1 THEN -5 ELSE -3)
    ELSE 0

\* Math.max(0, Math.min(100, x))
Clamp0To100(x) == IF x > 100 THEN 100 ELSE IF x < 0 THEN 0 ELSE x

\* part_000 estimateTop8Probability: the values of its locals when it returns.
\* Below 9 players it returns 100 before thresholdPoints and diff are assigned.
EstimateTop8Locals(wins, losses, draws, totalRounds, numPlayers, omwEstimate) ==
    LET points == getMatchPoints(wins, draws)
        thresholdPoints == ThresholdPoints(numPlayers, totalRounds)
        diff == points - thresholdPoints
        baseProb == BaseProb(diff)
        inZone == omwEstimate.given /\ diff >= -2 /\ diff <= 0
    IN  IF numPlayers <= 8
        THEN [early |-> TRUE, points |-> points, thresholdPoints |-> 0, diff |-> 0,
              adjusted |-> FALSE, result |-> 100]
        ELSE [early |-> FALSE, points |-> points, thresholdPoints |-> thresholdPoints,
              diff |-> diff, adjusted |-> inZone,
              result |-> IF inZone
                         THEN Clamp0To100(baseProb + OmwAdjustment(omwEstimate, diff))
                         ELSE baseProb]

\* part_000 estimateTop8Probability
estimateTop8Probability(wins, losses, draws, totalRounds, numPlayers, omwEstimate) ==
    EstimateTop8Locals(wins, losses, draws, totalRounds, numPlayers, omwEstimate).result

\* script.js estimateTop8Probability (no OMW parameter)
script_estimateTop8Probability(wins, losses, draws, totalRounds, numPlayers) ==
    LET points == script_getMatchPoints(wins, draws)
        thresholdPoints ==
            IF numPlayers <= 16 THEN 9
            ELSE IF numPlayers <= 32 THEN 12
            ELSE IF numPlayers <= 64 THEN 15
            ELSE IF numPlayers <= 128 THEN 16
            ELSE IF numPlayers <= 256 THEN 18
            ELSE IF numPlayers <= 512 THEN 21
            ELSE IF numPlayers <= 1024 THEN 24
            ELSE (totalRounds - 2) * 3
        diff == points - thresholdPoints
    IN  IF numPlayers <= 8 THEN 100
        ELSE IF diff >= 6 THEN 100
        ELSE IF diff >= 3 THEN 98
        ELSE IF diff >= 1 THEN 92
        ELSE IF diff = 0 THEN 75
        ELSE IF diff = -1 THEN 50
        ELSE IF diff = -2 THEN 25
        ELSE IF diff = -3 THEN 10
        ELSE IF diff = -4 THEN 3
        ELSE IF diff = -5 THEN 1
        ELSE 0

\* Math.round(omwEstimate * 100) for a positive estimate: round half up.
OmwPercent(o) == (200 * o.num + o.den) \div (2 * o.den)

\* Mutant of OmwDisplay: every estimate below one half is labelled weak.
OmwDisplay_WeakBelowHalf(omwEstimate) ==
    IF omwEstimate.given
    THEN [hidden |-> FALSE,
          percent |-> OmwPercent(omwEstimate),
          class |-> IF OmwAbove(omwEstimate, 50) THEN "omw-good"
                    ELSE IF OmwBelow(omwEstimate, 50) THEN "omw-bad"
                    ELSE "omw-average",
          label |-> IF OmwAbove(omwEstimate, 50) THEN "good tiebreakers"
                    ELSE IF OmwBelow(omwEstimate, 50) THEN "weak tiebreakers"
                    ELSE "average tiebreakers"]
    ELSE [hidden |-> TRUE, percent |-> 0, class |-> "none", label |-> "none"]

\* part_000 calculate, lines 487-495: the OMW% line of the strategy card.
OmwDisplay(omwEstimate) ==
    IF omwEstimate.given
    THEN [hidden |-> FALSE,
          percent |-> OmwPercent(omwEstimate),
          class |-> IF OmwAbove(omwEstimate, 50) THEN "omw-good"
                    ELSE IF OmwBelow(omwEstimate, 45) THEN "omw-bad"
                    ELSE "omw-average",
          label |-> IF OmwAbove(omwEstimate, 50) THEN "good tiebreakers"
                    ELSE IF OmwBelow(omwEstimate, 45) THEN "weak tiebreakers"
                    ELSE "average tiebreakers"]
    ELSE [hidden |-> TRUE, percent |-> 0, class |-> "none", label |-> "none"]

\* Player counts handed to getRounds and the estimator: 0 and 1, both sides of every
\* power of two up to 1024 that is a bucket boundary of the threshold table, the
\* small powers of two, and some counts in between.
PlayerCounts == {0, 1, 2, 3, 4, 5, 7, 8, 9, 12, 16, 17, 24, 32, 33, 64, 65, 100, 128, 129,
                 256, 257, 400, 512, 513, 1024, 1025, 2048}

\* OMW estimates handed to the estimator, in hundredths: the floor, both sides of
\* every band boundary, and the maximum.
OmwHundredths == {33, 39, 40, 44, 45, 50, 51, 55, 56, 100}

EstInit ==
    /\ \E w \in 0..MaxWins, l \in 0..MaxLosses, d \in 0..MaxDraws,
          tr \in 0..MaxTotalRounds, np \in PlayerCounts,
          o \in {NoOMW} \cup {OMW(k, 100) : k \in OmwHundredths} :
           est = [active |-> TRUE,
                  wins |-> w, losses |-> l, draws |-> d,
                  totalRounds |-> tr, numPlayers |-> np, omwEstimate |-> o,
                  called |-> {},
                  rounds |-> 0, scriptRounds |-> 0,
                  locals |-> [early |-> FALSE, points |-> 0, thresholdPoints |-> 0,
                              diff |-> 0, adjusted |-> FALSE, result |-> 0],
                  omwDisplay |-> OmwDisplay(NoOMW),
                  scriptResult |-> 0]
    /\ enum = Idle
    /\ day2 = Idle
    /\ omw = Idle
    /\ top8 = Idle

\* part_000: getRounds and the estimator are applied to the player count, the
\* estimator with the OMW estimate of the tracker (or with none, for the summary and
\* the all-records table); the estimate is shown with its label.
CallEstimateTop8Probability ==
    /\ est.active
    /\ "tracker.estimateTop8Probability" \notin est.called
    /\ est' = [est EXCEPT
           !.called = @ \cup {"tracker.estimateTop8Probability"},
           !.rounds = getRounds(est.numPlayers),
           !.locals = EstimateTop8Locals(est.wins, est.losses, est.draws,
                                         est.totalRounds, est.numPlayers, est.omwEstimate),
           !.omwDisplay = OmwDisplay(est.omwEstimate)]
    /\ UNCHANGED <<enum, day2, omw, top8>>

\* script.js: getRounds and the estimator, which takes no OMW estimate, are applied.
CallScriptEstimateTop8Probability ==
    /\ est.active
    /\ ~est.omwEstimate.given
    /\ "script.estimateTop8Probability" \notin est.called
    /\ est' = [est EXCEPT
           !.called = @ \cup {"script.estimateTop8Probability"},
           !.scriptRounds = script_getRounds(est.numPlayers),
           !.scriptResult = script_estimateTop8Probability(est.wins, est.losses, est.draws,
                                                           est.totalRounds, est.numPlayers)]
    /\ UNCHANGED <<enum, day2, omw, top8>>

EstNext ==
    \/ CallEstimateTop8Probability
    \/ CallScriptEstimateTop8Probability

SpecEst == EstInit /\ [][EstNext]_vars

EstReturned == est.active /\ "tracker.estimateTop8Probability" \in est.called
ScriptEstReturned == est.active /\ "script.estimateTop8Probability" \in est.called

(***************************************************************************)
(* C5.  Threshold step of the Top 8 estimator: with at most 8 players the  *)
(* result is 100 for every record; otherwise thresholdPoints is 9, 12, 15, *)
(* 16, 18, 21, 24 for up to 16, 32, 64, 128, 256, 512, 1024 players and    *)
(* (totalRounds-2)*3 above 1024.  32 players give 5 rounds and threshold   *)
(* 12, and the record 4-1-0 then gets 75 when no OMW estimate is given.    *)
(***************************************************************************)
C5_Threshold(numPlayers, totalRounds) ==
    CASE numPlayers <= 16 -> 9
      [] numPlayers > 16 /\ numPlayers <= 32 -> 12
      [] numPlayers > 32 /\ numPlayers <= 64 -> 15
      [] numPlayers > 64 /\ numPlayers <= 128 -> 16
      [] numPlayers > 128 /\ numPlayers <= 256 -> 18
      [] numPlayers > 256 /\ numPlayers <= 512 -> 21
      [] numPlayers > 512 /\ numPlayers <= 1024 -> 24
      [] numPlayers > 1024 -> (totalRounds - 2) * 3

C5_ThresholdStep ==
    EstReturned =>
        /\ est.numPlayers <= 8 => est.locals.result = 100
        /\ est.numPlayers > 8 =>
               est.locals.thresholdPoints = C5_Threshold(est.numPlayers, est.totalRounds)
        /\ est.numPlayers = 32 =>
               /\ est.rounds = 5
               /\ est.locals.thresholdPoints = 12
               /\ (est.wins = 4 /\ est.losses = 1 /\ est.draws = 0 /\ ~est.omwEstimate.given)
                      => est.locals.result = 75

\* The estimator has returned for 32 players, 5 rounds, record 4-1-0, no OMW estimate.
C5_Witness ==
    /\ EstReturned
    /\ est.numPlayers = 32 /\ est.totalRounds = 5 /\ est.rounds = 5
    /\ est.wins = 4 /\ est.losses = 1 /\ est.draws = 0
    /\ ~est.omwEstimate.given
    /\ est.locals.thresholdPoints = 12
    /\ est.locals.result = 75

(***************************************************************************)
(* C6.  Base probability of the Top 8 estimator: with diff = wins*3 +      *)
(* draws - thresholdPoints and no OMW estimate the result is 100 for       *)
(* diff >= 6, 98 for 3..5, 92 for 1..2, 75 for 0, 50 for -1, 25 for -2,    *)
(* 10 for -3, 3 for -4, 1 for -5 and 0 for diff <= -6; the result is an    *)
(* integer in 0..100 with or without an OMW estimate.  Both variants.      *)
(***************************************************************************)
C6_Table(diff) ==
    CASE diff >= 6 -> 100
      [] diff \in 3..5 -> 98
      [] diff \in 1..2 -> 92
      [] diff = 0 -> 75
      [] diff = -1 -> 50
      [] diff = -2 -> 25
      [] diff = -3 -> 10
      [] diff = -4 -> 3
      [] diff = -5 -> 1
      [] diff <= -6 -> 0

C6_BaseProbability ==
    /\ EstReturned =>
           /\ est.locals.result \in 0..100
           /\ (est.numPlayers > 8 /\ ~est.omwEstimate.given) =>
                  est.locals.result =
                      C6_Table(est.wins * 3 + est.draws - est.locals.thresholdPoints)
    /\ ScriptEstReturned =>
           /\ est.scriptResult \in 0..100
           /\ est.numPlayers > 8 =>
                  est.scriptResult =
                      C6_Table(est.wins * 3 + est.draws
                               - C5_Threshold(est.numPlayers, est.totalRounds))

\* Both estimators have returned for a record four points under the threshold.
C6_Witness ==
    /\ EstReturned /\ ScriptEstReturned
    /\ est.numPlayers = 64
    /\ est.wins = 3 /\ est.draws = 2
    /\ est.locals.diff = -4
    /\ est.locals.result = 3
    /\ est.scriptResult = 3

\* The estimator has returned 0 and 100 at the ends of the table.
C6_WitnessEnds ==
    /\ EstReturned
    /\ est.numPlayers > 8
    /\ est.locals.diff <= -6 \/ est.locals.diff >= 6

(***************************************************************************)
(* C7.  OMW adjustment of the Top 8 estimator: outside diff in -2..0 the   *)
(* result is the base probability for every OMW estimate; for diff 0/-1/-2 *)
(* with an estimate given the result is the base probability plus          *)
(* +10/+10/+5 if omw > 0.55, +5/+4/+2 if 0.50 < omw <= 0.55, -15/-10/-8 if *)
(* omw < 0.40, -8/-5/-3 if 0.40 <= omw < 0.45, unchanged if 0.45 <= omw <= *)
(* 0.50, clamped to 0..100.                                                *)
(***************************************************************************)
C7_Pick(diff, atZero, atMinusOne, atMinusTwo) ==
    CASE diff = 0 -> atZero
      [] diff = -1 -> atMinusOne
      [] diff = -2 -> atMinusTwo

C7_Adjustment(o, diff) ==
    CASE o.num * 100 > 55 * o.den -> C7_Pick(diff, 10, 10, 5)
      [] o.num * 100 > 50 * o.den /\ o.num * 100 <= 55 * o.den -> C7_Pick(diff, 5, 4, 2)
      [] o.num * 100 < 40 * o.den -> C7_Pick(diff, -15, -10, -8)
      [] o.num * 100 >= 40 * o.den /\ o.num * 100 < 45 * o.den -> C7_Pick(diff, -8, -5, -3)
      [] o.num * 100 >= 45 * o.den /\ o.num * 100 <= 50 * o.den -> 0

C7_OmwAdjustmentBands ==
    (EstReturned /\ est.numPlayers > 8 /\ est.omwEstimate.given) =>
        LET diff == est.wins * 3 + est.draws - est.locals.thresholdPoints
            base == C6_Table(diff)
            sum == base + C7_Adjustment(est.omwEstimate, diff)
        IN  IF diff \in -2..0
            THEN est.locals.result = (IF sum > 100 THEN 100 ELSE IF sum < 0 THEN 0 ELSE sum)
            ELSE est.locals.result = base

\* In the zone with a poor estimate: 50 - 10.
C7_Witness ==
    /\ EstReturned
    /\ est.omwEstimate = OMW(39, 100)
    /\ est.locals.diff = -1
    /\ est.locals.adjusted
    /\ est.locals.result = 40

\* Just outside the zone with an extreme estimate: the base probability stands.
C7_WitnessOutside ==
    /\ EstReturned
    /\ est.omwEstimate = OMW(100, 100)
    /\ est.numPlayers > 8
    /\ est.locals.diff = -3
    /\ est.locals.result = 10

(***************************************************************************)
(* C8.  The Top 8 estimator never decreases when a win is added: for fixed *)
(* losses, draws, totalRounds, numPlayers and OMW estimate (given or not), *)
(* the probability for wins+1 is at least the probability for wins.        *)
(***************************************************************************)
C8_MonotoneInWins ==
    /\ EstReturned =>
           est.locals.result <=
               estimateTop8Probability(est.wins + 1, est.losses, est.draws,
                                       est.totalRounds, est.numPlayers, est.omwEstimate)
    /\ ScriptEstReturned =>
           est.scriptResult <=
               script_estimateTop8Probability(est.wins + 1, est.losses, est.draws,
                                              est.totalRounds, est.numPlayers)

\* An adjusted probability inside the zone, one win away from leaving it upwards.
C8_Witness ==
    /\ EstReturned
    /\ est.wins >= 1
    /\ est.locals.adjusted
    /\ est.locals.diff = 0
    /\ est.locals.result = 85
    /\ estimateTop8Probability(est.wins + 1, est.losses, est.draws,
                               est.totalRounds, est.numPlayers, est.omwEstimate) = 98

(***************************************************************************)
(* OMW% estimator (part_000 estimateOMW).                                  *)
(*                                                                         *)
(* A round result is "W", "L", "D" or Null (not played).  The arithmetic   *)
(* is exact: every per-round estimate is a multiple of 1/(100*totalRounds) *)
(* and is kept as its numerator over that denominator:                     *)
(*   0.5 = 50*T, (cumWins-cumLosses)/(2*T) = 50*(cumWins-cumLosses),       *)
(*   0.04 = 4*T, 0.33 = 33*T, 1 = 100*T         (T = totalRounds).         *)
(* The mean of n estimates with numerators summing to s is s / (n*100*T).  *)
(***************************************************************************)

Null == "null"
RoundResult == {"W", "L", "D", Null}

\* Mutant of ClampOpponentMW: the 33% floor is missing.
ClampOpponentMW_NoFloor(opponentMW, totalRounds) ==
    IF opponentMW > 100 * totalRounds THEN 100 * totalRounds ELSE opponentMW

\* part_000 estimateOMW: Math.max(0.33, Math.min(1, opponentMW))
ClampOpponentMW(opponentMW, totalRounds) ==
    LET capped == IF opponentMW > 100 * totalRounds THEN 100 * totalRounds ELSE opponentMW
    IN  IF capped < 33 * totalRounds THEN 33 * totalRounds ELSE capped

\* Mutant of OmwStep: cumWins and cumLosses are never advanced.
OmwStep_CountersNotAdvanced(w, r, totalRounds) ==
    LET bracketStrength == 50 * totalRounds + 50 * (w.cumWins - w.cumLosses)
        opponentMW == IF r = "W" THEN bracketStrength - 4 * totalRounds
                      ELSE IF r = "L" THEN bracketStrength + 4 * totalRounds
                      ELSE bracketStrength
    IN  [cumWins |-> w.cumWins,
         cumLosses |-> w.cumLosses,
         raw |-> Append(w.raw, opponentMW),
         opponentMWs |-> Append(w.opponentMWs, ClampOpponentMW(opponentMW, totalRounds))]

\* Mutant of OmwStep: the bracket strength falls with the win-loss balance.
OmwStep_BracketInverted(w, r, totalRounds) ==
    LET bracketStrength == 50 * totalRounds - 50 * (w.cumWins - w.cumLosses)
        opponentMW == IF r = "W" THEN bracketStrength - 4 * totalRounds
                      ELSE IF r = "L" THEN bracketStrength + 4 * totalRounds
                      ELSE bracketStrength
    IN  [cumWins |-> IF r = "W" THEN w.cumWins + 1 ELSE w.cumWins,
         cumLosses |-> IF r = "L" THEN w.cumLosses + 1 ELSE w.cumLosses,
         raw |-> Append(w.raw, opponentMW),
         opponentMWs |-> Append(w.opponentMWs, ClampOpponentMW(opponentMW, totalRounds))]

\* Mutant of OmwStep: the 0.04 offsets of a win and a loss are exchanged.
OmwStep_OffsetsExchanged(w, r, totalRounds) ==
    LET bracketStrength == 50 * totalRounds + 50 * (w.cumWins - w.cumLosses)
        opponentMW == IF r = "W" THEN bracketStrength + 4 * totalRounds
                      ELSE IF r = "L" THEN bracketStrength - 4 * totalRounds
                      ELSE bracketStrength
    IN  [cumWins |-> IF r = "W" THEN w.cumWins + 1 ELSE w.cumWins,
         cumLosses |-> IF r = "L" THEN w.cumLosses + 1 ELSE w.cumLosses,
         raw |-> Append(w.raw, opponentMW),
         opponentMWs |-> Append(w.opponentMWs, ClampOpponentMW(opponentMW, totalRounds))]

\* Mutant of OmwStep: a draw advances cumWins as a win does.
OmwStep_DrawAdvancesWins(w, r, totalRounds) ==
    LET bracketStrength == 50 * totalRounds + 50 * (w.cumWins - w.cumLosses)
        opponentMW == IF r = "W" THEN bracketStrength - 4 * totalRounds
                      ELSE IF r = "L" THEN bracketStrength + 4 * totalRounds
                      ELSE bracketStrength
    IN  [cumWins |-> IF r = "W" \/ r = "D" THEN w.cumWins + 1 ELSE w.cumWins,
         cumLosses |-> IF r = "L" THEN w.cumLosses + 1 ELSE w.cumLosses,
         raw |-> Append(w.raw, opponentMW),
         opponentMWs |-> Append(w.opponentMWs, ClampOpponentMW(opponentMW, totalRounds))]

\* part_000 estimateOMW, one iteration of the loop for a played round r.
OmwStep(w, r, totalRounds) ==
    LET bracketStrength == 50 * totalRounds + 50 * (w.cumWins - w.cumLosses)
        opponentMW == IF r = "W" THEN bracketStrength - 4 * totalRounds
                      ELSE IF r = "L" THEN bracketStrength + 4 * totalRounds
                      ELSE bracketStrength
    IN  [cumWins |-> IF r = "W" THEN w.cumWins + 1 ELSE w.cumWins,
         cumLosses |-> IF r = "L" THEN w.cumLosses + 1 ELSE w.cumLosses,
         raw |-> Append(w.raw, opponentMW),
         opponentMWs |-> Append(w.opponentMWs, ClampOpponentMW(opponentMW, totalRounds))]

\* Mutant of OmwWalk: the loop ends at the first unplayed round (break for continue).
RECURSIVE OmwWalk_StopsAtGap(_, _, _, _)
OmwWalk_StopsAtGap(w, i, results, totalRounds) ==
    IF i > Len(results) THEN w
    ELSE IF results[i] = Null THEN w
    ELSE OmwWalk_StopsAtGap(OmwStep(w, results[i], totalRounds), i + 1, results, totalRounds)

\* part_000 estimateOMW, the loop over results from index i on (1-based here).
RECURSIVE OmwWalk(_, _, _, _)
OmwWalk(w, i, results, totalRounds) ==
    IF i > Len(results) THEN w
    ELSE IF results[i] = Null THEN OmwWalk(w, i + 1, results, totalRounds)
    ELSE OmwWalk(OmwStep(w, results[i], totalRounds), i + 1, results, totalRounds)

OmwWalkStart == [cumWins |-> 0, cumLosses |-> 0, raw |-> <<>>, opponentMWs |-> <<>>]

RECURSIVE SumSeq(_, _)
SumSeq(xs, j) == IF j > Len(xs) THEN 0 ELSE xs[j] + SumSeq(xs, j + 1)

\* part_000 estimateOMW: what it returns and the values of its locals when it returns.
EstimateOMWLocals(results, totalRounds) ==
    LET filledResults == SelectSeq(results, LAMBDA r : r # Null)
        w == OmwWalk(OmwWalkStart, 1, results, totalRounds)
    IN  IF Len(results) = 0 \/ Len(filledResults) = 0
        THEN [walk |-> OmwWalkStart, result |-> NoOMW]
        ELSE [walk |-> w,
              result |-> OMW(SumSeq(w.opponentMWs, 1),
                             Len(w.opponentMWs) * 100 * totalRounds)]

\* part_000 estimateOMW
estimateOMW(results, totalRounds) == EstimateOMWLocals(results, totalRounds).result

\* All result sequences of length 0..n.
ResultSeqs(n) == UNION {[1..k -> RoundResult] : k \in 0..n}

OmwInit ==
    /\ \E rs \in ResultSeqs(MaxResults), tr \in 1..MaxOmwRounds :
           omw = [active |-> TRUE, results |-> rs, totalRounds |-> tr,
                  returned |-> FALSE,
                  walk |-> OmwWalkStart, result |-> NoOMW]
    /\ enum = Idle
    /\ day2 = Idle
    /\ est = Idle
    /\ top8 = Idle

\* part_000 calculate applies estimateOMW to the tracker's results.
CallEstimateOMW ==
    /\ omw.active
    /\ ~omw.returned
    /\ LET r == EstimateOMWLocals(omw.results, omw.totalRounds)
       IN  omw' = [omw EXCEPT !.returned = TRUE, !.walk = r.walk, !.result = r.result]
    /\ UNCHANGED <<enum, day2, est, top8>>

OmwNext == CallEstimateOMW

SpecOmw == OmwInit /\ [][OmwNext]_vars

(***************************************************************************)
(* C9.  estimateOMW returns null for an empty sequence and for a sequence  *)
(* whose entries are all unplayed; for a sequence with at least one played *)
(* round (totalRounds >= 1) it returns a value in [0.33, 1.0].             *)
(***************************************************************************)
C9_Played(results) == \E i \in 1..Len(results) : results[i] # Null

C9_NullOrInRange ==
    (omw.active /\ omw.returned) =>
        IF C9_Played(omw.results)
        THEN /\ omw.result.given
             /\ omw.result.den > 0
             /\ omw.result.num * 100 >= 33 * omw.result.den
             /\ omw.result.num <= omw.result.den
        ELSE ~omw.result.given

\* A returned estimate whose later rounds were all clamped to the floor.
C9_Witness ==
    /\ omw.active /\ omw.returned
    /\ omw.results = <<"L", "L", Null, "W", "L">>
    /\ omw.totalRounds = 3
    /\ omw.result.given
    /\ omw.walk.raw[3] < 33 * 3
    /\ omw.walk.opponentMWs[3] = 33 * 3

\* null returned for a non-empty sequence of unplayed rounds.
C9_WitnessAllUnplayed ==
    /\ omw.active /\ omw.returned
    /\ omw.results = <<Null, Null, Null>>
    /\ ~omw.result.given

(***************************************************************************)
(* C10.  estimateOMW is order-sensitive.  As claimed: two fully played     *)
(* sequences with the same numbers of wins, losses and draws, arranged in  *)
(* a different order, yield different estimates for the same totalRounds.  *)
(* That fails: W,L,L,W and L,W,W,L over four rounds both give 0.5.  What   *)
(* holds: the two sequences                                                *)
(* yield different estimates whenever no per-round estimate of either is   *)
(* clamped and their position-weighted balances differ, the balance being  *)
(* the sum over rounds of the round number times +1 for a win, -1 for a    *)
(* loss and 0 for a draw.                                                  *)
(***************************************************************************)
C10_Count(p, x) == Cardinality({i \in 1..Len(p) : p[i] = x})

C10_FullyPlayed(p) == Len(p) >= 1 /\ \A i \in 1..Len(p) : p[i] # Null

\* The other arrangements of the same wins, losses and draws.
C10_Rearrangements(results) ==
    {p \in [1..Len(results) -> {"W", "L", "D"}] :
        /\ \A x \in {"W", "L", "D"} : C10_Count(p, x) = C10_Count(results, x)
        /\ \E i \in 1..Len(results) : p[i] # results[i]}

C10_SameEstimate(a, b) == a.given /\ b.given /\ a.num * b.den = b.num * a.den

C10_Unclamped(walk) == walk.raw = walk.opponentMWs

RECURSIVE C10_Balance(_, _)
C10_Balance(p, i) ==
    IF i > Len(p) THEN 0
    ELSE i * (IF p[i] = "W" THEN 1 ELSE IF p[i] = "L" THEN -1 ELSE 0) + C10_Balance(p, i + 1)

\* The claim as stated.
C10_EveryRearrangementDiffers ==
    (omw.active /\ omw.returned /\ C10_FullyPlayed(omw.results)) =>
        \A p \in C10_Rearrangements(omw.results) :
            ~C10_SameEstimate(estimateOMW(p, omw.totalRounds), omw.result)

\* The claim as amended.
C10_DiffersWhenBalanceDiffers ==
    (omw.active /\ omw.returned /\ C10_FullyPlayed(omw.results)
        /\ C10_Unclamped(omw.walk)) =>
        \A p \in C10_Rearrangements(omw.results) :
            LET other == EstimateOMWLocals(p, omw.totalRounds)
            IN  (C10_Unclamped(other.walk)
                    /\ C10_Balance(p, 1) # C10_Balance(omw.results, 1))
                => ~C10_SameEstimate(other.result, omw.result)

\* A tie the tracker can hold: four rounds, all played, nothing clamped, both 0.5.
C10_TieInFourRounds ==
    /\ omw.active /\ omw.returned
    /\ omw.results = <<"W", "L", "L", "W">>
    /\ omw.totalRounds = 4
    /\ C10_Unclamped(omw.walk)
    /\ omw.result.num * 2 = omw.result.den
    /\ C10_SameEstimate(estimateOMW(<<"L", "W", "W", "L">>, 4), omw.result)

\* A returned, unclamped estimate of a sequence that has an unclamped rearrangement
\* with another balance: the early loss against the late loss.
C10_Witness ==
    /\ omw.active /\ omw.returned
    /\ omw.results = <<"L", "W", "W">>
    /\ omw.totalRounds = 5
    /\ C10_Unclamped(omw.walk)
    /\ <<"W", "W", "L">> \in C10_Rearrangements(omw.results)
    /\ C10_Unclamped(EstimateOMWLocals(<<"W", "W", "L">>, 5).walk)
    /\ C10_Balance(<<"W", "W", "L">>, 1) # C10_Balance(omw.results, 1)
    /\ omw.result.num * 75 = 34 * omw.result.den

(***************************************************************************)
(* C11.  Losing later never lowers the OMW estimate: for a result sequence *)
(* with a loss immediately followed by a win, the sequence with the two    *)
(* swapped (win, then loss, the rest unchanged) has an estimate greater    *)
(* than or equal to the original's, and strictly greater when no per-round *)
(* estimate is clamped (of the original, or of the swapped sequence).      *)
(***************************************************************************)
\* The positions of a loss immediately followed by a win.
C11_LossThenWin(results) ==
    {i \in 1..(Len(results) - 1) : results[i] = "L" /\ results[i + 1] = "W"}

C11_Swapped(results, i) == [results EXCEPT ![i] = "W", ![i + 1] = "L"]

\* a >= b and a > b for two estimates that are given (denominators positive)
C11_AtLeast(a, b) == a.num * b.den >= b.num * a.den
C11_Above(a, b) == a.num * b.den > b.num * a.den

C11_LosingLaterNeverLowers ==
    (omw.active /\ omw.returned) =>
        \A i \in C11_LossThenWin(omw.results) :
            LET other == EstimateOMWLocals(C11_Swapped(omw.results, i), omw.totalRounds)
            IN  /\ other.result.given /\ omw.result.given
                /\ C11_AtLeast(other.result, omw.result)
                /\ (C10_Unclamped(omw.walk) \/ C10_Unclamped(other.walk))
                       => C11_Above(other.result, omw.result)

\* An unclamped estimate of W,L,W over three rounds; W,W,L is unclamped and higher.
C11_Witness ==
    /\ omw.active /\ omw.returned
    /\ omw.results = <<"W", "L", "W">>
    /\ omw.totalRounds = 3
    /\ 2 \in C11_LossThenWin(omw.results)
    /\ C10_Unclamped(omw.walk)
    /\ C10_Unclamped(EstimateOMWLocals(<<"W", "W", "L">>, 3).walk)
    /\ C11_Above(estimateOMW(<<"W", "W", "L">>, 3), omw.result)

\* A swap that changes nothing: both rounds sit on the 33% floor before and after.
C11_WitnessClampedTie ==
    /\ omw.active /\ omw.returned
    /\ \E i \in C11_LossThenWin(omw.results) :
           C10_SameEstimate(estimateOMW(C11_Swapped(omw.results, i), omw.totalRounds),
                            omw.result)

(***************************************************************************)
(* Top 8 page with the round tracker (part_000): the page state outside    *)
(* calculate().  An input holds the integer parseInt(value) || 0 reads     *)
(* from it.  The tracker grid is what buildRoundTracker last rendered: one *)
(* row per round, with the round-disabled class or not, with the clear     *)
(* button or not (which button of a row is highlighted is left out).       *)
(***************************************************************************)

\* Values typed into the wins, losses and draws inputs: 0..MaxTypedRecord.
MaxTypedRecord == 1

\* Player counts typed while the tracker is exercised: below 2 (no rebuild), and
\* counts giving 2 and 3 rounds.
TrackerPlayerCounts == {1, 4, 8}

\* part_000 getRecordFromTracker
getRecordFromTracker(roundResults) ==
    [wins |-> Cardinality({i \in 1..Len(roundResults) : roundResults[i] = "W"}),
     losses |-> Cardinality({i \in 1..Len(roundResults) : roundResults[i] = "L"}),
     draws |-> Cardinality({i \in 1..Len(roundResults) : roundResults[i] = "D"})]

\* part_000 buildRoundTracker, lines 302-303: push null up to, pop down to, totalRounds.
ResizeRoundResults(roundResults, totalRounds) ==
    [r \in 1..totalRounds |-> IF r <= Len(roundResults) THEN roundResults[r] ELSE Null]

\* part_000 buildRoundTracker, lines 307-353: the rows rendered for roundResults.
RenderRows(roundResults) ==
    [r \in 1..Len(roundResults) |->
        [filled |-> roundResults[r] # Null,
         enabled |-> (r = 1 \/ roundResults[r - 1] # Null \/ roundResults[r] # Null),
         hasClear |-> roundResults[r] # Null]]

\* part_000 buildRoundTracker: nothing happens below 2 players.
buildRoundTracker(t) ==
    LET players == t.playersInput
        totalRounds == getRounds(players)
        resized == ResizeRoundResults(t.roundResults, totalRounds)
    IN  IF players < 2 THEN t
        ELSE [t EXCEPT !.roundResults = resized, !.grid = RenderRows(resized)]

\* part_000 updateRoundsDisplay
updateRoundsDisplay(t) ==
    LET players == t.playersInput
        shownRounds == IF players >= 2
                       THEN [t EXCEPT !.roundsDisplay = [visible |-> TRUE,
                                                         rounds |-> getRounds(players)]]
                       ELSE [t EXCEPT !.roundsDisplay.visible = FALSE]
    IN  IF t.inProgress THEN buildRoundTracker(shownRounds) ELSE shownRounds

\* part_000 updateRecordDisplay
updateRecordDisplay(t) ==
    LET rec == getRecordFromTracker(t.roundResults)
        w == IF t.inProgress THEN rec.wins ELSE t.winsInput
        l == IF t.inProgress THEN rec.losses ELSE t.lossesInput
        d == IF t.inProgress THEN rec.draws ELSE t.drawsInput
    IN  [t EXCEPT !.winsInput = w, !.lossesInput = l, !.drawsInput = d,
                  !.recordDisplay = [wins |-> w, losses |-> l, draws |-> d,
                                     points |-> getMatchPoints(w, d),
                                     played |-> IF t.inProgress THEN w + l + d
                                                ELSE t.recordDisplay.played,
                                     playedHidden |-> ~t.inProgress]]

\* Mutant of onRoundClear: only the clicked round is cleared.
onRoundClear_OnlyThisRound(t, round) ==
    updateRecordDisplay(buildRoundTracker(
        [t EXCEPT !.roundResults = [i \in 1..Len(t.roundResults) |->
                                       IF i = round THEN Null ELSE t.roundResults[i]]]))

\* part_000 onRoundClear (round is 1-based here)
onRoundClear(t, round) ==
    updateRecordDisplay(buildRoundTracker(
        [t EXCEPT !.roundResults = [i \in 1..Len(t.roundResults) |->
                                       IF i >= round THEN Null ELSE t.roundResults[i]]]))

\* part_000 onRoundBtnClick (round is 1-based here)
onRoundBtnClick(t, round, result) ==
    updateRecordDisplay(buildRoundTracker([t EXCEPT !.roundResults[round] = result]))

\* part_000 onToggleChange, after the checkbox has taken its new state
onToggleChange(t) ==
    updateRecordDisplay(
        IF t.inProgress
        THEN buildRoundTracker([t EXCEPT !.recordInputsHidden = TRUE,
                                         !.roundTrackerHidden = FALSE])
        ELSE [t EXCEPT !.recordInputsHidden = FALSE, !.roundTrackerHidden = TRUE])

\* The stylesheet is not part of the sources.  An element inside a container with
\* the class 'hidden' is not displayed and takes no click or keystroke; a tracker
\* row with the class 'round-disabled' takes no click.
TakesInput(containerHidden) == ~containerHidden
RowTakesClicks(t, round) ==
    /\ TakesInput(t.roundTrackerHidden)
    /\ round \in 1..Len(t.grid)
    /\ t.grid[round].enabled

(***************************************************************************)
(* Top 8 page with the round tracker (part_000): calculate().              *)
(***************************************************************************)

\* part_000 getProbClass
getProbClass(prob) ==
    IF prob >= 85 THEN "prob-high"
    ELSE IF prob >= 60 THEN "prob-likely"
    ELSE IF prob >= 30 THEN "prob-medium"
    ELSE IF prob >= 5 THEN "prob-low"
    ELSE "prob-none"

\* part_000 getStatusInfo
getStatusInfo(prob) ==
    IF prob >= 90 THEN [text |-> "Locked In", class |-> "status-safe"]
    ELSE IF prob >= 60 THEN [text |-> "Likely", class |-> "status-likely"]
    ELSE IF prob >= 25 THEN [text |-> "Possible", class |-> "status-possible"]
    ELSE IF prob >= 3 THEN [text |-> "Unlikely", class |-> "status-unlikely"]
    ELSE [text |-> "Out", class |-> "status-out"]

\* part_000 getVerdict
getVerdict(prob) ==
    IF prob >= 90 THEN [text |-> "almost certainly", class |-> "verdict-safe"]
    ELSE IF prob >= 60 THEN [text |-> "good chances", class |-> "verdict-likely"]
    ELSE IF prob >= 25 THEN [text |-> "have a shot", class |-> "verdict-possible"]
    ELSE IF prob >= 3 THEN [text |-> "tough", class |-> "verdict-unlikely"]
    ELSE [text |-> "very low", class |-> "verdict-eliminated"]

\* part_000 calculate, lines 418-446: the alert of the first guard that fails, or "none".
Top8Alert(t) ==
    LET numPlayers == t.playersInput
        totalRounds == getRounds(numPlayers)
        roundsPlayed == t.winsInput + t.lossesInput + t.drawsInput
    IN  IF numPlayers < 8 THEN "Minimum number of players is 8"
        ELSE IF t.inProgress
        THEN (IF roundsPlayed >= totalRounds THEN "already played all rounds"
              ELSE IF roundsPlayed = 0 THEN "at least 1 round played"
              ELSE "none")
        ELSE (IF roundsPlayed > totalRounds THEN "record exceeds rounds" ELSE "none")

\* Mutant of Top8MinWinsLoop: the search estimates without the OMW estimate.
RECURSIVE Top8MinWinsLoop_WithoutOmw(_, _, _, _, _, _, _, _)
Top8MinWinsLoop_WithoutOmw(testW, currentWins, currentLosses, currentDraws, remaining, totalRounds, numPlayers, omwEstimate) ==
    IF testW <= remaining
    THEN IF estimateTop8Probability(currentWins + testW, currentLosses,
                                    currentDraws + (remaining - testW),
                                    totalRounds, numPlayers, NoOMW) >= 75
         THEN testW
         ELSE Top8MinWinsLoop_WithoutOmw(testW + 1, currentWins, currentLosses, currentDraws,
                                         remaining, totalRounds, numPlayers, omwEstimate)
    ELSE -1

\* Mutant of Top8MinWinsLoop: the break is missing, the last hit is kept.
RECURSIVE Top8MinWinsLoop_NoBreak(_, _, _, _, _, _, _, _)
Top8MinWinsLoop_NoBreak(testW, currentWins, currentLosses, currentDraws, remaining, totalRounds, numPlayers, omwEstimate) ==
    IF testW <= remaining
    THEN LET later == Top8MinWinsLoop_NoBreak(testW + 1, currentWins, currentLosses,
                          currentDraws, remaining, totalRounds, numPlayers, omwEstimate)
         IN  IF later # -1 THEN later
             ELSE IF estimateTop8Probability(currentWins + testW, currentLosses,
                                             currentDraws + (remaining - testW),
                                             totalRounds, numPlayers, omwEstimate) >= 75
             THEN testW
             ELSE -1
    ELSE -1

\* part_000 calculate, lines 469-479: the least number of wins, the other remaining
\* rounds drawn, whose estimate reaches 75; -1 if there is none.
RECURSIVE Top8MinWinsLoop(_, _, _, _, _, _, _, _)
Top8MinWinsLoop(testW, currentWins, currentLosses, currentDraws, remaining, totalRounds, numPlayers, omwEstimate) ==
    IF testW <= remaining
    THEN IF estimateTop8Probability(currentWins + testW, currentLosses,
                                    currentDraws + (remaining - testW),
                                    totalRounds, numPlayers, omwEstimate) >= 75
         THEN testW
         ELSE Top8MinWinsLoop(testW + 1, currentWins, currentLosses, currentDraws,
                              remaining, totalRounds, numPlayers, omwEstimate)
    ELSE -1

\* part_000 calculate, lines 416-429 and 450-479: the values the strategy is chosen from.
StrategyLocals(numPlayers, currentWins, currentLosses, currentDraws, roundResults) ==
    LET totalRounds == getRounds(numPlayers)
        roundsPlayed == currentWins + currentLosses + currentDraws
        remaining == totalRounds - roundsPlayed
        omwEstimate == estimateOMW(roundResults, totalRounds)
    IN  [numPlayers |-> numPlayers,
         totalRounds |-> totalRounds,
         currentWins |-> currentWins,
         currentLosses |-> currentLosses,
         currentDraws |-> currentDraws,
         currentPoints |-> getMatchPoints(currentWins, currentDraws),
         roundsPlayed |-> roundsPlayed,
         remaining |-> remaining,
         roundResults |-> roundResults,
         omwEstimate |-> omwEstimate,
         drawAllProb |-> estimateTop8Probability(currentWins, currentLosses,
                             currentDraws + remaining, totalRounds, numPlayers, omwEstimate),
         winAllProb |-> estimateTop8Probability(currentWins + remaining, currentLosses,
                             currentDraws, totalRounds, numPlayers, omwEstimate),
         minWinsNeeded |-> Top8MinWinsLoop(0, currentWins, currentLosses, currentDraws,
                             remaining, totalRounds, numPlayers, omwEstimate)]

\* Mutant of StrategyVerdict: the 60% test is tried before the 90% test.
StrategyVerdict_SixtyFirst(c) ==
    IF c.drawAllProb >= 60
    THEN [kind |-> "likelySafe", class |-> "strategy-mixed"]
    ELSE IF c.drawAllProb >= 90
    THEN [kind |-> "safeDraw", class |-> "strategy-draw"]
    ELSE IF c.minWinsNeeded > 0 /\ c.minWinsNeeded <= c.remaining
    THEN [kind |-> "mustWinAtLeast", class |-> "strategy-play"]
    ELSE IF c.winAllProb < 25
    THEN [kind |-> "unlikelyEvenWinning", class |-> "strategy-must-win"]
    ELSE [kind |-> "mustWinDrawUnsafe", class |-> "strategy-play"]

\* part_000 calculate, lines 497-518: the strategy verdict, first match wins.
StrategyVerdict(c) ==
    IF c.drawAllProb >= 90
    THEN [kind |-> "safeDraw", class |-> "strategy-draw"]
    ELSE IF c.drawAllProb >= 60
    THEN [kind |-> "likelySafe", class |-> "strategy-mixed"]
    ELSE IF c.minWinsNeeded > 0 /\ c.minWinsNeeded <= c.remaining
    THEN [kind |-> "mustWinAtLeast", class |-> "strategy-play"]
    ELSE IF c.winAllProb < 25
    THEN [kind |-> "unlikelyEvenWinning", class |-> "strategy-must-win"]
    ELSE [kind |-> "mustWinDrawUnsafe", class |-> "strategy-play"]

\* part_000 calculate, lines 525-556: one row of the remaining-rounds table.
Top8ScenarioRow(sc, c) ==
    LET finalW == c.currentWins + sc.extraWins
        finalL == c.currentLosses + sc.extraLosses
        finalD == c.currentDraws + sc.extraDraws
        prob == estimateTop8Probability(finalW, finalL, finalD,
                                        c.totalRounds, c.numPlayers, c.omwEstimate)
    IN  [extraWins |-> sc.extraWins, extraLosses |-> sc.extraLosses,
         extraDraws |-> sc.extraDraws,
         finalW |-> finalW, finalL |-> finalL, finalD |-> finalD,
         pts |-> getMatchPoints(finalW, finalD),
         prob |-> prob,
         probClass |-> getProbClass(prob),
         status |-> getStatusInfo(prob),
         isAllDraw |-> (sc.extraDraws = c.remaining /\ sc.extraWins = 0 /\ sc.extraLosses = 0),
         isAllWin |-> (sc.extraWins = c.remaining /\ sc.extraLosses = 0 /\ sc.extraDraws = 0)]

\* part_000 calculate, lines 594-616: one row of the full table (no OMW estimate).
Top8ThresholdRow(rec, c) ==
    LET prob == estimateTop8Probability(rec.wins, rec.losses, rec.draws,
                                        c.totalRounds, c.numPlayers, NoOMW)
    IN  [wins |-> rec.wins, losses |-> rec.losses, draws |-> rec.draws,
         pts |-> getMatchPoints(rec.wins, rec.draws),
         prob |-> prob,
         probClass |-> getProbClass(prob),
         status |-> getStatusInfo(prob),
         isCurrent |-> (rec.wins = c.currentWins /\ rec.losses = c.currentLosses
                        /\ rec.draws = c.currentDraws)]

\* part_000 calculate, lines 449-563: the strategy card and the remaining-rounds table.
StrategyCard(c) ==
    LET scenarios == generateRemainingScenarios(c.remaining)
    IN  [calc |-> c,
         verdict |-> StrategyVerdict(c),
         omwDisplay |-> OmwDisplay(c.omwEstimate),
         scenariosBody |-> [i \in 1..Len(scenarios) |-> Top8ScenarioRow(scenarios[i], c)]]

\* part_000 calculate, lines 568-618: the summary and the full table.
ResultsCard(c, isInProgress) ==
    LET currentProb == estimateTop8Probability(c.currentWins, c.currentLosses,
                           c.currentDraws, c.totalRounds, c.numPlayers, NoOMW)
        allRecords == generateAllRecords(c.totalRounds)
    IN  [numPlayers |-> c.numPlayers, totalRounds |-> c.totalRounds,
         record |-> <<c.currentWins, c.currentLosses, c.currentDraws>>,
         points |-> c.currentPoints,
         partial |-> isInProgress,
         currentProb |-> currentProb,
         verdict |-> getVerdict(currentProb),
         thresholdsBody |-> [i \in 1..Len(allRecords) |-> Top8ThresholdRow(allRecords[i], c)]]

\* What the page shows before the first calculation.
NoStrategyCard ==
    [calc |-> StrategyLocals(0, 0, 0, 0, <<>>),
     verdict |-> [kind |-> "none", class |-> "none"],
     omwDisplay |-> OmwDisplay(NoOMW),
     scenariosBody |-> <<>>]

NoResultsCard ==
    [numPlayers |-> 0, totalRounds |-> 0, record |-> <<0, 0, 0>>, points |-> 0,
     partial |-> FALSE, currentProb |-> 0,
     verdict |-> [text |-> "none", class |-> "none"],
     thresholdsBody |-> <<>>]

Top8NothingRendered ==
    [resultsHidden |-> TRUE, strategyHidden |-> TRUE,
     strategy |-> NoStrategyCard, results |-> NoResultsCard]

\* part_000 calculate, lines 448-625: what the page shows when every guard holds.
Top8Rendered(t) ==
    LET c == StrategyLocals(t.playersInput, t.winsInput, t.lossesInput, t.drawsInput,
                            t.roundResults)
    IN  [resultsHidden |-> FALSE,
         strategyHidden |-> ~t.inProgress,
         strategy |-> IF t.inProgress THEN StrategyCard(c) ELSE t.shown.strategy,
         results |-> ResultsCard(c, t.inProgress)]

(***************************************************************************)
(* The round tracker in use: the page after loading, then the user's       *)
(* events in any order.  calculate() is not pressed.                       *)
(***************************************************************************)

\* part_000, lines 40 and 645-646: the page after its script has run.  The toggle is
\* off and the tracker hidden until the toggle is first switched on.
Top8PageLoaded(players, wins, losses, draws) ==
    updateRecordDisplay(updateRoundsDisplay(
        [active |-> TRUE, variant |-> "part_000",
         playersInput |-> players, inProgress |-> FALSE,
         winsInput |-> wins, lossesInput |-> losses, drawsInput |-> draws,
         recordInputsHidden |-> FALSE, roundTrackerHidden |-> TRUE,
         roundsDisplay |-> [visible |-> FALSE, rounds |-> 0],
         recordDisplay |-> [wins |-> 0, losses |-> 0, draws |-> 0, points |-> 0,
                            played |-> 0, playedHidden |-> TRUE],
         roundResults |-> <<>>, grid |-> <<>>,
         alert |-> "none", shown |-> Top8NothingRendered]))

TrackerInit ==
    /\ \E p \in TrackerPlayerCounts : top8 = Top8PageLoaded(p, 0, 0, 0)
    /\ enum = Idle
    /\ day2 = Idle
    /\ est = Idle
    /\ omw = Idle

OnTrackerPage == top8.active /\ top8.variant = "part_000"

\* 'input' on the players field: updateRoundsDisplay
TypePlayers(p) ==
    /\ OnTrackerPage
    /\ p # top8.playersInput
    /\ top8' = updateRoundsDisplay([top8 EXCEPT !.playersInput = p])
    /\ UNCHANGED <<enum, day2, est, omw>>

\* 'change' on the in-progress checkbox: onToggleChange
ToggleInProgress ==
    /\ OnTrackerPage
    /\ top8' = onToggleChange([top8 EXCEPT !.inProgress = ~top8.inProgress])
    /\ UNCHANGED <<enum, day2, est, omw>>

\* 'input' on the wins, losses or draws field: updateRecordDisplay
TypeRecord(field, v) ==
    /\ OnTrackerPage
    /\ TakesInput(top8.recordInputsHidden)
    /\ top8' = updateRecordDisplay(
                   CASE field = "wins" -> [top8 EXCEPT !.winsInput = v]
                     [] field = "losses" -> [top8 EXCEPT !.lossesInput = v]
                     [] field = "draws" -> [top8 EXCEPT !.drawsInput = v])
    /\ top8' # top8
    /\ UNCHANGED <<enum, day2, est, omw>>

\* 'click' on a W, L or D button of a rendered row: onRoundBtnClick
ClickRoundBtn(round, result) ==
    /\ OnTrackerPage
    /\ RowTakesClicks(top8, round)
    /\ top8' = onRoundBtnClick(top8, round, result)
    /\ UNCHANGED <<enum, day2, est, omw>>

\* 'click' on the clear button of a rendered row that has one: onRoundClear
ClickRoundClear(round) ==
    /\ OnTrackerPage
    /\ RowTakesClicks(top8, round)
    /\ top8.grid[round].hasClear
    /\ top8' = onRoundClear(top8, round)
    /\ UNCHANGED <<enum, day2, est, omw>>

TrackerTypePlayers == \E p \in TrackerPlayerCounts : TypePlayers(p)
TrackerTypeRecord ==
    \E field \in {"wins", "losses", "draws"}, v \in 0..MaxTypedRecord : TypeRecord(field, v)
TrackerClickRoundBtn ==
    \E round \in 1..Len(top8.grid), result \in {"W", "L", "D"} : ClickRoundBtn(round, result)
TrackerClickRoundClear == \E round \in 1..Len(top8.grid) : ClickRoundClear(round)

TrackerNext ==
    \/ TrackerTypePlayers
    \/ ToggleInProgress
    \/ TrackerTypeRecord
    \/ TrackerClickRoundBtn
    \/ TrackerClickRoundClear

SpecTracker == TrackerInit /\ [][TrackerNext]_vars

(***************************************************************************)
(* C12.  Round tracker: starting from an all-unplayed sequence, after any  *)
(* sequence of result clicks, clears and player-count changes, roundResults*)
(* is a contiguous prefix of played rounds: no round is unplayed while a   *)
(* later round is played.                                                  *)
(***************************************************************************)
C12_ContiguousPrefix(roundResults) ==
    ~\E i, j \in 1..Len(roundResults) :
        i < j /\ roundResults[i] = Null /\ roundResults[j] # Null

C12_PlayedRoundsAreAPrefix == OnTrackerPage => C12_ContiguousPrefix(top8.roundResults)

(***************************************************************************)
(* Top 8 page without the round tracker (script.js).  Its page state has   *)
(* the same fields; roundResults and grid stay empty.                      *)
(***************************************************************************)

\* script.js getProbClass
script_getProbClass(prob) ==
    IF prob >= 85 THEN "prob-high"
    ELSE IF prob >= 60 THEN "prob-likely"
    ELSE IF prob >= 30 THEN "prob-medium"
    ELSE IF prob >= 5 THEN "prob-low"
    ELSE "prob-none"

\* script.js getStatusInfo
script_getStatusInfo(prob) ==
    IF prob >= 90 THEN [text |-> "Locked In", class |-> "status-safe"]
    ELSE IF prob >= 60 THEN [text |-> "Likely", class |-> "status-likely"]
    ELSE IF prob >= 25 THEN [text |-> "Possible", class |-> "status-possible"]
    ELSE IF prob >= 3 THEN [text |-> "Unlikely", class |-> "status-unlikely"]
    ELSE [text |-> "Out", class |-> "status-out"]

\* script.js getVerdict
script_getVerdict(prob) ==
    IF prob >= 90 THEN [text |-> "almost certainly", class |-> "verdict-safe"]
    ELSE IF prob >= 60 THEN [text |-> "good chances", class |-> "verdict-likely"]
    ELSE IF prob >= 25 THEN [text |-> "have a shot", class |-> "verdict-possible"]
    ELSE IF prob >= 3 THEN [text |-> "tough", class |-> "verdict-unlikely"]
    ELSE [text |-> "very low", class |-> "verdict-eliminated"]

\* script.js updateRoundsDisplay
script_updateRoundsDisplay(t) ==
    LET players == t.playersInput
    IN  IF players >= 2
        THEN [t EXCEPT !.roundsDisplay = [visible |-> TRUE,
                                          rounds |-> script_getRounds(players)]]
        ELSE [t EXCEPT !.roundsDisplay.visible = FALSE]

\* script.js updateRecordDisplay
script_updateRecordDisplay(t) ==
    LET w == t.winsInput
        l == t.lossesInput
        d == t.drawsInput
    IN  [t EXCEPT !.recordDisplay = [wins |-> w, losses |-> l, draws |-> d,
                                     points |-> script_getMatchPoints(w, d),
                                     played |-> IF t.inProgress THEN w + l + d
                                                ELSE t.recordDisplay.played,
                                     playedHidden |-> ~t.inProgress]]

\* script.js onToggleChange, after the checkbox has taken its new state
script_onToggleChange(t) == script_updateRecordDisplay(t)

\* script.js calculate, lines 209-239: the alert of the first guard that fails, or "none".
script_Top8Alert(t) ==
    LET numPlayers == t.playersInput
        totalRounds == script_getRounds(numPlayers)
        roundsPlayed == t.winsInput + t.lossesInput + t.drawsInput
    IN  IF numPlayers < 8 THEN "Minimum number of players is 8"
        ELSE IF t.inProgress
        THEN (IF roundsPlayed >= totalRounds THEN "already played all rounds"
              ELSE IF roundsPlayed = 0 THEN "at least 1 round played"
              ELSE "none")
        ELSE (IF roundsPlayed > totalRounds THEN "record exceeds rounds" ELSE "none")

\* script.js calculate, lines 259-269: the minWinsNeeded loop.
RECURSIVE script_Top8MinWinsLoop(_, _, _, _, _, _, _)
script_Top8MinWinsLoop(testW, currentWins, currentLosses, currentDraws, remaining, totalRounds, numPlayers) ==
    IF testW <= remaining
    THEN IF script_estimateTop8Probability(currentWins + testW, currentLosses,
                                           currentDraws + (remaining - testW),
                                           totalRounds, numPlayers) >= 75
         THEN testW
         ELSE script_Top8MinWinsLoop(testW + 1, currentWins, currentLosses, currentDraws,
                                     remaining, totalRounds, numPlayers)
    ELSE -1

\* script.js calculate, lines 209-222 and 243-268: the values the strategy is chosen from.
script_StrategyLocals(numPlayers, currentWins, currentLosses, currentDraws) ==
    LET totalRounds == script_getRounds(numPlayers)
        roundsPlayed == currentWins + currentLosses + currentDraws
        remaining == totalRounds - roundsPlayed
    IN  [numPlayers |-> numPlayers,
         totalRounds |-> totalRounds,
         currentWins |-> currentWins,
         currentLosses |-> currentLosses,
         currentDraws |-> currentDraws,
         currentPoints |-> script_getMatchPoints(currentWins, currentDraws),
         roundsPlayed |-> roundsPlayed,
         remaining |-> remaining,
         drawAllProb |-> script_estimateTop8Probability(currentWins, currentLosses,
                             currentDraws + remaining, totalRounds, numPlayers),
         winAllProb |-> script_estimateTop8Probability(currentWins + remaining,
                             currentLosses, currentDraws, totalRounds, numPlayers),
         minWinsNeeded |-> script_Top8MinWinsLoop(0, currentWins, currentLosses,
                             currentDraws, remaining, totalRounds, numPlayers)]

\* script.js calculate, lines 276-297: the strategy verdict, first match wins.
script_StrategyVerdict(c) ==
    IF c.drawAllProb >= 90
    THEN [kind |-> "safeDraw", class |-> "strategy-draw"]
    ELSE IF c.drawAllProb >= 60
    THEN [kind |-> "likelySafe", class |-> "strategy-mixed"]
    ELSE IF c.minWinsNeeded > 0 /\ c.minWinsNeeded <= c.remaining
    THEN [kind |-> "mustWinAtLeast", class |-> "strategy-play"]
    ELSE IF c.winAllProb < 25
    THEN [kind |-> "unlikelyEvenWinning", class |-> "strategy-must-win"]
    ELSE [kind |-> "mustWinDrawUnsafe", class |-> "strategy-play"]

\* script.js calculate, lines 303-334: one row of the remaining-rounds table.
script_ScenarioRow(sc, c) ==
    LET finalW == c.currentWins + sc.extraWins
        finalL == c.currentLosses + sc.extraLosses
        finalD == c.currentDraws + sc.extraDraws
        prob == script_estimateTop8Probability(finalW, finalL, finalD,
                                               c.totalRounds, c.numPlayers)
    IN  [extraWins |-> sc.extraWins, extraLosses |-> sc.extraLosses,
         extraDraws |-> sc.extraDraws,
         finalW |-> finalW, finalL |-> finalL, finalD |-> finalD,
         pts |-> script_getMatchPoints(finalW, finalD),
         prob |-> prob,
         probClass |-> script_getProbClass(prob),
         status |-> script_getStatusInfo(prob),
         isAllDraw |-> (sc.extraDraws = c.remaining /\ sc.extraWins = 0 /\ sc.extraLosses = 0),
         isAllWin |-> (sc.extraWins = c.remaining /\ sc.extraLosses = 0 /\ sc.extraDraws = 0)]

\* script.js calculate, lines 372-394: one row of the full table.
script_ThresholdRow(rec, c) ==
    LET prob == script_estimateTop8Probability(rec.wins, rec.losses, rec.draws,
                                               c.totalRounds, c.numPlayers)
    IN  [wins |-> rec.wins, losses |-> rec.losses, draws |-> rec.draws,
         pts |-> script_getMatchPoints(rec.wins, rec.draws),
         prob |-> prob,
         probClass |-> script_getProbClass(prob),
         status |-> script_getStatusInfo(prob),
         isCurrent |-> (rec.wins = c.currentWins /\ rec.losses = c.currentLosses
                        /\ rec.draws = c.currentDraws)]

\* script.js calculate, lines 242-341: the strategy card and the remaining-rounds table.
script_StrategyCard(c) ==
    LET scenarios == script_generateRemainingScenarios(c.remaining)
    IN  [calc |-> c,
         verdict |-> script_StrategyVerdict(c),
         scenariosBody |-> [i \in 1..Len(scenarios) |-> script_ScenarioRow(scenarios[i], c)]]

\* script.js calculate, lines 346-394: the summary and the full table.
script_ResultsCard(c, isInProgress) ==
    LET currentProb == script_estimateTop8Probability(c.currentWins, c.currentLosses,
                           c.currentDraws, c.totalRounds, c.numPlayers)
        allRecords == script_generateAllRecords(c.totalRounds)
    IN  [numPlayers |-> c.numPlayers, totalRounds |-> c.totalRounds,
         record |-> <<c.currentWins, c.currentLosses, c.currentDraws>>,
         points |-> c.currentPoints,
         partial |-> isInProgress,
         currentProb |-> currentProb,
         verdict |-> script_getVerdict(currentProb),
         thresholdsBody |-> [i \in 1..Len(allRecords) |->
                                script_ThresholdRow(allRecords[i], c)]]

script_NothingRendered ==
    [resultsHidden |-> TRUE, strategyHidden |-> TRUE,
     strategy |-> [calc |-> script_StrategyLocals(0, 0, 0, 0),
                   verdict |-> [kind |-> "none", class |-> "none"],
                   scenariosBody |-> <<>>],
     results |-> NoResultsCard]

\* script.js calculate, lines 241-404: what the page shows when every guard holds.
script_Top8Rendered(t) ==
    LET c == script_StrategyLocals(t.playersInput, t.winsInput, t.lossesInput, t.drawsInput)
    IN  [resultsHidden |-> FALSE,
         strategyHidden |-> ~t.inProgress,
         strategy |-> IF t.inProgress THEN script_StrategyCard(c) ELSE t.shown.strategy,
         results |-> script_ResultsCard(c, t.inProgress)]

\* script.js, lines 423-425: the page after its script has run.
ScriptPageLoaded(players, inProgress, wins, losses, draws) ==
    script_updateRecordDisplay(script_updateRoundsDisplay(
        [active |-> TRUE, variant |-> "script.js",
         playersInput |-> players, inProgress |-> inProgress,
         winsInput |-> wins, lossesInput |-> losses, drawsInput |-> draws,
         recordInputsHidden |-> FALSE, roundTrackerHidden |-> TRUE,
         roundsDisplay |-> [visible |-> FALSE, rounds |-> 0],
         recordDisplay |-> [wins |-> 0, losses |-> 0, draws |-> 0, points |-> 0,
                            played |-> 0, playedHidden |-> TRUE],
         roundResults |-> <<>>, grid |-> <<>>,
         alert |-> "none", shown |-> script_NothingRendered]))

(***************************************************************************)
(* The three pages with calculate() pressed.  A page starts in a state its *)
(* handlers reach from the loaded page: the typed record, or the tracker   *)
(* after the toggle was switched on and the first rounds were clicked in   *)
(* order.  The field that decides the number of rounds can then be retyped *)
(* between calculations, and on the page without tracker the toggle        *)
(* switched.                                                               *)
(***************************************************************************)

\* Largest values typed into the wins, losses and draws inputs of the Top 8 pages.
MaxPageWins == 6
MaxPageLosses == 2
MaxPageDraws == 2

\* Player counts typed into the Top 8 pages: below the minimum, the minimum, and
\* counts giving 4, 5 and 6 rounds.
Top8PlayerCounts == {7, 8, 12, 20, 40}

\* The tracker page after W/L/D was clicked for rounds i..Len(rs), in order.
RECURSIVE TrackerAfterClicks(_, _, _)
TrackerAfterClicks(t, rs, i) ==
    IF i > Len(rs) THEN t
    ELSE TrackerAfterClicks(onRoundBtnClick(t, i, rs[i]), rs, i + 1)

Top8PageInit ==
    /\ \E p \in Top8PlayerCounts :
           \/ \E w \in 0..MaxPageWins, l \in 0..MaxPageLosses, d \in 0..MaxPageDraws :
                  top8 = Top8PageLoaded(p, w, l, d)
           \/ \E k \in 0..getRounds(p) :
                  \E rs \in [1..k -> {"W", "L", "D"}] :
                      top8 = TrackerAfterClicks(
                                 onToggleChange([Top8PageLoaded(p, 0, 0, 0)
                                                    EXCEPT !.inProgress = TRUE]),
                                 rs, 1)
    /\ enum = Idle
    /\ day2 = Idle
    /\ est = Idle
    /\ omw = Idle

ScriptPageInit ==
    /\ \E p \in Top8PlayerCounts, ip \in BOOLEAN,
          w \in 0..MaxPageWins, l \in 0..MaxPageLosses, d \in 0..MaxPageDraws :
           top8 = ScriptPageLoaded(p, ip, w, l, d)
    /\ enum = Idle
    /\ day2 = Idle
    /\ est = Idle
    /\ omw = Idle

PagesInit == Day2Init \/ Top8PageInit \/ ScriptPageInit

\* Mutant of Top8AfterAlert: the strategy section is hidden before the validation.
Top8AfterAlert_StrategyHiddenFirst(t, message) ==
    [t EXCEPT !.alert = message, !.shown.strategyHidden = TRUE]

\* part_000 calculate, lines 418-446: alert(...); return.
Top8AfterAlert(t, message) == [t EXCEPT !.alert = message]

\* script.js calculate, lines 211-239: alert(...); return.
script_Top8AfterAlert(t, message) == [t EXCEPT !.alert = message]

\* Round counts typed into the Day 2 page between calculations.
Day2TypedRounds == {0, 2, 5, MaxDay2Rounds}

\* A value is typed into the total-rounds field of the Day 2 page; its listeners
\* (day2.js, lines 284-287) refresh the hint and the record line only.
Day2TypeTotalRounds ==
    /\ day2.active
    /\ \E v \in Day2TypedRounds :
           /\ v # day2.totalRoundsInput
           /\ day2' = [day2 EXCEPT !.totalRoundsInput = v]
    /\ UNCHANGED <<enum, est, omw, top8>>

\* part_000 calculate, a guard fails
Top8CalculateRejected ==
    /\ OnTrackerPage
    /\ Top8Alert(top8) # "none"
    /\ top8' = Top8AfterAlert(top8, Top8Alert(top8))
    /\ UNCHANGED <<enum, day2, est, omw>>

\* part_000 calculate, every guard holds
Top8CalculateRendered ==
    /\ OnTrackerPage
    /\ Top8Alert(top8) = "none"
    /\ top8' = [top8 EXCEPT !.alert = "none", !.shown = Top8Rendered(top8)]
    /\ UNCHANGED <<enum, day2, est, omw>>

PagesTypePlayers == \E p \in Top8PlayerCounts : TypePlayers(p)

OnScriptPage == top8.active /\ top8.variant = "script.js"

\* script.js: 'input' on the players field: updateRoundsDisplay
ScriptTypePlayers ==
    /\ OnScriptPage
    /\ \E p \in Top8PlayerCounts :
           /\ p # top8.playersInput
           /\ top8' = script_updateRoundsDisplay([top8 EXCEPT !.playersInput = p])
    /\ UNCHANGED <<enum, day2, est, omw>>

\* script.js: 'change' on the in-progress checkbox: onToggleChange
ScriptToggleInProgress ==
    /\ OnScriptPage
    /\ top8' = script_onToggleChange([top8 EXCEPT !.inProgress = ~top8.inProgress])
    /\ UNCHANGED <<enum, day2, est, omw>>

\* script.js calculate, a guard fails
ScriptCalculateRejected ==
    /\ OnScriptPage
    /\ script_Top8Alert(top8) # "none"
    /\ top8' = script_Top8AfterAlert(top8, script_Top8Alert(top8))
    /\ UNCHANGED <<enum, day2, est, omw>>

\* script.js calculate, every guard holds
ScriptCalculateRendered ==
    /\ OnScriptPage
    /\ script_Top8Alert(top8) = "none"
    /\ top8' = [top8 EXCEPT !.alert = "none", !.shown = script_Top8Rendered(top8)]
    /\ UNCHANGED <<enum, day2, est, omw>>

PagesNext ==
    \/ Day2CalculateRejected
    \/ Day2CalculateRendered
    \/ Day2TypeTotalRounds
    \/ Top8CalculateRejected
    \/ Top8CalculateRendered
    \/ PagesTypePlayers
    \/ ScriptCalculateRejected
    \/ ScriptCalculateRendered
    \/ ScriptTypePlayers
    \/ ScriptToggleInProgress

SpecPages == PagesInit /\ [][PagesNext]_vars

\* The two Top 8 pages alone.
Top8Init == Top8PageInit \/ ScriptPageInit

Top8Next ==
    \/ Top8CalculateRejected
    \/ Top8CalculateRendered
    \/ PagesTypePlayers
    \/ ScriptCalculateRejected
    \/ ScriptCalculateRendered
    \/ ScriptTypePlayers
    \/ ScriptToggleInProgress

SpecTop8 == Top8Init /\ [][Top8Next]_vars

(***************************************************************************)
(* C13.  Top 8 in-progress strategy verdict, first match in this order:    *)
(* drawAllProb >= 90 -> safe to draw out; drawAllProb >= 60 -> likely safe,*)
(* winning is safer; 0 < minWinsNeeded <= remaining -> must win at least   *)
(* minWinsNeeded; winAllProb < 25 -> unlikely even winning out; otherwise  *)
(* -> must win, drawing unsafe.  Exactly one of the five is produced for   *)
(* every validated in-progress input.  Both pages.                         *)
(***************************************************************************)
C13_Kinds == {"safeDraw", "likelySafe", "mustWinAtLeast", "unlikelyEvenWinning",
              "mustWinDrawUnsafe"}

C13_FirstMatch(c) ==
    CASE c.drawAllProb >= 90 -> "safeDraw"
      [] c.drawAllProb < 90 /\ c.drawAllProb >= 60 -> "likelySafe"
      [] c.drawAllProb < 60 /\ (0 < c.minWinsNeeded /\ c.minWinsNeeded <= c.remaining)
             -> "mustWinAtLeast"
      [] c.drawAllProb < 60 /\ ~(0 < c.minWinsNeeded /\ c.minWinsNeeded <= c.remaining)
             /\ c.winAllProb < 25 -> "unlikelyEvenWinning"
      [] c.drawAllProb < 60 /\ ~(0 < c.minWinsNeeded /\ c.minWinsNeeded <= c.remaining)
             /\ c.winAllProb >= 25 -> "mustWinDrawUnsafe"

\* The page shows the calculation of its current inputs, made in in-progress mode.
C13_ShowsCurrentInProgress ==
    /\ top8.active /\ top8.inProgress
    /\ top8.alert = "none"
    /\ ~top8.shown.resultsHidden
    /\ top8.shown.results.numPlayers = top8.playersInput
    /\ top8.shown.results.record = <<top8.winsInput, top8.lossesInput, top8.drawsInput>>
    /\ top8.shown.results.partial

C13_StrategyVerdictOrder ==
    /\ (top8.active /\ ~top8.shown.strategyHidden) =>
           /\ top8.shown.strategy.verdict.kind \in C13_Kinds
           /\ top8.shown.strategy.verdict.kind = C13_FirstMatch(top8.shown.strategy.calc)
    /\ C13_ShowsCurrentInProgress =>
           LET c == top8.shown.strategy.calc
           IN  /\ ~top8.shown.strategyHidden
               /\ c.numPlayers = top8.playersInput
               /\ <<c.currentWins, c.currentLosses, c.currentDraws>>
                      = <<top8.winsInput, top8.lossesInput, top8.drawsInput>>
               /\ c.remaining >= 1

\* The last category on the tracker page: drawing is unsafe, no number of wins
\* reaches 75, winning out keeps a chance.
C13_Witness ==
    /\ OnTrackerPage /\ ~top8.shown.strategyHidden
    /\ top8.shown.strategy.verdict.kind = "mustWinDrawUnsafe"
    /\ top8.shown.strategy.calc.minWinsNeeded = -1
    /\ top8.shown.strategy.calc.winAllProb >= 25

C13_WitnessKind(variant, kind) ==
    /\ top8.active /\ top8.variant = variant /\ ~top8.shown.strategyHidden
    /\ top8.shown.strategy.verdict.kind = kind


(***************************************************************************)
(* C14.  calculate() renders a verdict or table only when the guards hold  *)
(* (Day 2: totalRounds >= 1, threshold >= 1, 1 <= roundsPlayed <=          *)
(* totalRounds; Top 8: numPlayers >= 8, roundsPlayed <= totalRounds, and   *)
(* in in-progress mode 1 <= roundsPlayed < totalRounds, so remaining >= 1);*)
(* when a guard fails it reports an error and leaves every result,         *)
(* strategy and tracker state exactly as it was before the call.           *)
(***************************************************************************)
C14_Day2GuardsHold(d) ==
    LET roundsPlayed == d.winsInput + d.lossesInput + d.drawsInput
    IN  /\ d.totalRoundsInput >= 1
        /\ d.thresholdInput >= 1
        /\ 1 <= roundsPlayed /\ roundsPlayed <= d.totalRoundsInput

C14_Top8GuardsHold(t) ==
    LET roundsPlayed == t.winsInput + t.lossesInput + t.drawsInput
        totalRounds == getRounds(t.playersInput)
    IN  /\ t.playersInput >= 8
        /\ roundsPlayed <= totalRounds
        /\ t.inProgress => (1 <= roundsPlayed /\ roundsPlayed < totalRounds)

\* What is on the pages was rendered from inputs that satisfied the guards.
C14_RenderedUnderGuards ==
    /\ (day2.active /\ ~day2.shown.resultsHidden) =>
           LET c == day2.shown.calc
           IN  /\ c.roundsPlayed + c.remaining >= 1
               /\ day2.shown.threshold >= 1
               /\ 1 <= c.roundsPlayed /\ c.remaining >= 0
               /\ day2.shown.verdict.kind # "none"
    /\ (top8.active /\ ~top8.shown.resultsHidden) =>
           LET r == top8.shown.results
               played == r.record[1] + r.record[2] + r.record[3]
           IN  /\ r.numPlayers >= 8
               /\ played <= r.totalRounds
               /\ r.partial => (1 <= played /\ played < r.totalRounds)
    /\ (top8.active /\ ~top8.shown.strategyHidden) =>
           LET c == top8.shown.strategy.calc
           IN  /\ c.numPlayers >= 8
               /\ 1 <= c.roundsPlayed /\ c.roundsPlayed < c.totalRounds
               /\ c.remaining >= 1
    /\ (day2.active /\ day2.shown.resultsHidden) => day2.shown.scenariosBody = <<>>
    /\ (top8.active /\ top8.shown.resultsHidden) =>
           /\ top8.shown.strategyHidden
           /\ top8.shown.results.thresholdsBody = <<>>
           /\ top8.shown.strategy.scenariosBody = <<>>

\* A step of the Day 2 page that changes no input: calculate() was pressed.
C14_Day2CalculateStep ==
    /\ day2.active /\ day2' # day2
    /\ day2'.totalRoundsInput = day2.totalRoundsInput
    /\ day2'.thresholdInput = day2.thresholdInput
    /\ day2'.winsInput = day2.winsInput
    /\ day2'.lossesInput = day2.lossesInput
    /\ day2'.drawsInput = day2.drawsInput

\* A step of a Top 8 page that changes no input: calculate() was pressed.
C14_Top8CalculateStep ==
    /\ top8.active /\ top8' # top8
    /\ top8'.playersInput = top8.playersInput
    /\ top8'.inProgress = top8.inProgress
    /\ top8'.winsInput = top8.winsInput
    /\ top8'.lossesInput = top8.lossesInput
    /\ top8'.drawsInput = top8.drawsInput

C14_CalculateStep ==
    /\ C14_Day2CalculateStep =>
           IF C14_Day2GuardsHold(day2)
           THEN /\ day2'.shown.alert = "none"
                /\ ~day2'.shown.resultsHidden
           ELSE /\ day2'.shown.alert # "none"
                /\ day2' = [day2 EXCEPT !.shown.alert = day2'.shown.alert]
    /\ C14_Top8CalculateStep =>
           IF C14_Top8GuardsHold(top8)
           THEN /\ top8'.alert = "none"
                /\ ~top8'.shown.resultsHidden
                /\ top8'.shown.strategyHidden = ~top8.inProgress
           ELSE /\ top8'.alert # "none"
                /\ top8' = [top8 EXCEPT !.alert = top8'.alert]

C14_WitnessDay2 ==
    /\ day2.active
    /\ ~day2.shown.resultsHidden
    /\ day2.shown.alert = "record exceeds rounds"

(***************************************************************************)
(* C15.  getRounds(numPlayers) returns 0 for numPlayers < 2 and otherwise  *)
(* the unique integer r with 2^(r-1) < numPlayers <= 2^r, that is          *)
(* ceil(log2(numPlayers)).  Both pages.                                    *)
(***************************************************************************)
C15_Between(r, numPlayers) == r >= 1 /\ 2^(r - 1) < numPlayers /\ numPlayers <= 2^r

C15_IsCeilLog2(r, numPlayers) ==
    IF numPlayers < 2 THEN r = 0
    ELSE /\ C15_Between(r, numPlayers)
         /\ \A q \in 0..12 : C15_Between(q, numPlayers) => q = r

C15_GetRounds ==
    /\ EstReturned => C15_IsCeilLog2(est.rounds, est.numPlayers)
    /\ ScriptEstReturned => C15_IsCeilLog2(est.scriptRounds, est.numPlayers)

\* Both getRounds have returned 7 for 128 players, a power of two.
C15_Witness ==
    /\ EstReturned /\ ScriptEstReturned
    /\ est.numPlayers = 128
    /\ est.rounds = 7 /\ est.scriptRounds = 7

\* getRounds has returned 0 for a single player.
C15_WitnessBelowTwo ==
    /\ EstReturned
    /\ est.numPlayers = 1
    /\ est.rounds = 0

(***************************************************************************)
(* C16.  Day 2 calculate(): when the player is neither already qualified   *)
(* nor eliminated, the linear search finds a value, and minWinsNeeded is   *)
(* the smallest w in 0..remaining with currentPoints + 3w + (remaining-w)  *)
(* >= threshold, equal to max(0, ceil((threshold - currentPoints -         *)
(* remaining)/2)); for 9 rounds, threshold 19 and record 5-1-0 it is 1.    *)
(***************************************************************************)
\* ceil(x / 2) for an integer x
C16_CeilHalf(x) == (x + 1) \div 2

C16_MinWinsNeeded ==
    (day2.active /\ ~day2.shown.resultsHidden) =>
        LET currentPoints == day2.winsInput * 3 + day2.drawsInput
            remaining == day2.totalRoundsInput
                             - (day2.winsInput + day2.lossesInput + day2.drawsInput)
            threshold == day2.thresholdInput
            m == day2.shown.calc.minWinsNeeded
            short == C16_CeilHalf(threshold - currentPoints - remaining)
        IN  (currentPoints < threshold /\ currentPoints + remaining * 3 >= threshold) =>
                /\ m \in 0..remaining
                /\ currentPoints + 3 * m + (remaining - m) >= threshold
                /\ \A w \in 0..(m - 1) : currentPoints + 3 * w + (remaining - w) < threshold
                /\ m = (IF short > 0 THEN short ELSE 0)
                /\ (day2.totalRoundsInput = 9 /\ threshold = 19 /\ day2.winsInput = 5
                        /\ day2.lossesInput = 1 /\ day2.drawsInput = 0) => m = 1

\* 9 rounds, threshold 19, record 5-1-0: 15 points, 3 rounds left, one win needed.
C16_Witness ==
    /\ day2.active /\ ~day2.shown.resultsHidden
    /\ day2.totalRoundsInput = 9 /\ day2.thresholdInput = 19
    /\ day2.winsInput = 5 /\ day2.lossesInput = 1 /\ day2.drawsInput = 0
    /\ day2.shown.calc.currentPoints = 15
    /\ day2.shown.calc.remaining = 3
    /\ day2.shown.calc.minWinsNeeded = 1

(***************************************************************************)
(* C17.  Day 2 calculate(): when the player is not already qualified, not  *)
(* eliminated and cannot reach the threshold by drawing out, and reaching  *)
(* the threshold takes a win in every remaining round (minWinsNeeded =     *)
(* remaining) without the 'one more win' case applying, the verdict is     *)
(* 'must win all remaining rounds'.                                        *)
(***************************************************************************)
\* The case of the claim, on the values the verdict was chosen from.
C17_MustWinEveryRound(c, threshold) ==
    /\ ~c.alreadyIn
    /\ ~(c.maxPossiblePoints < threshold)
    /\ ~(c.drawAllPoints >= threshold)
    /\ c.minWinsNeeded = c.remaining
    /\ ~(c.minWinsNeeded = 1 /\ c.canLoseRest)

C17_MustWinAllVerdict ==
    (day2.active /\ ~day2.shown.resultsHidden
        /\ C17_MustWinEveryRound(day2.shown.calc, day2.shown.threshold)) =>
            day2.shown.verdict.kind = "mustWinAll"

\* No input renders the final else branch of the verdict chain.
C17_MustWinAllNeverShown ==
    day2.active => day2.shown.verdict.kind # "mustWinAll"

\* 3 rounds, threshold 9, record 1-0-0: both remaining rounds have to be won,
\* and the verdict shown is the 'need at least 2 wins' one.
C17_Witness ==
    /\ day2.active /\ ~day2.shown.resultsHidden
    /\ day2.totalRoundsInput = 3 /\ day2.thresholdInput = 9
    /\ day2.winsInput = 1 /\ day2.lossesInput = 0 /\ day2.drawsInput = 0
    /\ C17_MustWinEveryRound(day2.shown.calc, day2.shown.threshold)
    /\ day2.shown.calc.minWinsNeeded = 2
    /\ day2.shown.verdict.kind = "needWinsRestFree"

(***************************************************************************)
(* C18.  Day 2 calculate(): whenever the verdict tells the player that     *)
(* after the minimum wins the rest is free ('one more win ... safely draw  *)
(* or lose the rest' or 'after getting N wins the rest does not matter'),  *)
(* every remaining-round scenario with at least minWinsNeeded extra wins,  *)
(* whatever its losses and draws, yields final points >= threshold.        *)
(***************************************************************************)
C18_RestIsFreeKinds == {"oneMoreWin", "needWinsRestFree"}

C18_RestIsFree ==
    (day2.active /\ ~day2.shown.resultsHidden
        /\ day2.shown.verdict.kind \in C18_RestIsFreeKinds) =>
        LET c == day2.shown.calc
            threshold == day2.shown.threshold
            rows == day2.shown.scenariosBody
        IN  /\ c.minWinsNeeded \in 1..c.remaining
            \* every row of the rendered table
            /\ \A i \in 1..Len(rows) :
                   rows[i].extraWins >= c.minWinsNeeded =>
                       (rows[i].pts >= threshold /\ rows[i].makesDay2)
            \* every way to finish the remaining rounds
            /\ \A w \in c.minWinsNeeded..c.remaining :
                   \A l \in 0..(c.remaining - w) :
                       day2_getMatchPoints(day2.winsInput + w,
                                           day2.drawsInput + (c.remaining - w - l))
                           >= threshold

\* 4 rounds, threshold 9, record 1-0-0: two wins are needed out of three rounds,
\* and the table has the row "2 wins then a loss", which reaches 9 points.
C18_Witness ==
    /\ day2.active /\ ~day2.shown.resultsHidden
    /\ day2.shown.verdict.kind = "needWinsRestFree"
    /\ day2.shown.calc.minWinsNeeded = 2
    /\ day2.shown.calc.remaining = 3
    /\ \E i \in 1..Len(day2.shown.scenariosBody) :
           LET row == day2.shown.scenariosBody[i]
           IN  /\ row.extraWins = 2 /\ row.extraLosses = 1 /\ row.extraDraws = 0
               /\ row.pts = day2.shown.threshold

\* The 'one more win' verdict with rounds left to lose afterwards.
C18_WitnessOneMoreWin ==
    /\ day2.active /\ ~day2.shown.resultsHidden
    /\ day2.shown.verdict.kind = "oneMoreWin"
    /\ day2.shown.calc.remaining >= 2
    /\ \E i \in 1..Len(day2.shown.scenariosBody) :
           LET row == day2.shown.scenariosBody[i]
           IN  /\ row.extraWins = 1 /\ row.extraLosses = day2.shown.calc.remaining - 1
               /\ row.pts >= day2.shown.threshold

(***************************************************************************)
(* C19.  Day 2 status bands: with diff = points - threshold, getDay2Status *)
(* returns Safe for diff >= 3, Day 2 for 0 <= diff < 3, Close for          *)
(* -3 <= diff < 0, Tough for -6 <= diff < -3 and Eliminated for diff < -6; *)
(* buildPointsBarHTML assigns the bar style of the same band for every     *)
(* (points, threshold), with label 'Exact' exactly when diff = 0.          *)
(***************************************************************************)
\* The band of a difference, each band by its own interval.
C19_Band(diff) ==
    CASE diff >= 3 -> "Safe"
      [] 0 <= diff /\ diff < 3 -> "Day 2"
      [] -3 <= diff /\ diff < 0 -> "Close"
      [] -6 <= diff /\ diff < -3 -> "Tough"
      [] diff < -6 -> "Eliminated"

\* The badge class and the bar style that belong to a band.
C19_StatusClass(band) ==
    CASE band = "Safe" -> "status-safe"
      [] band = "Day 2" -> "status-likely"
      [] band = "Close" -> "status-possible"
      [] band = "Tough" -> "status-unlikely"
      [] band = "Eliminated" -> "status-out"

C19_BarStyle(band) ==
    CASE band = "Safe" -> "prob-high"
      [] band = "Day 2" -> "prob-likely"
      [] band = "Close" -> "prob-medium"
      [] band = "Tough" -> "prob-low"
      [] band = "Eliminated" -> "prob-none"

C19_InBand(status, bar, points, threshold) ==
    LET band == C19_Band(points - threshold)
    IN  /\ status.text = band
        /\ status.class = C19_StatusClass(band)
        /\ bar.cls = C19_BarStyle(band)
        /\ (bar.label.kind = "Exact") <=> (points - threshold = 0)

C19_StatusBands ==
    day2.active =>
        \* every row of the rendered table
        /\ \A i \in 1..Len(day2.shown.scenariosBody) :
               LET row == day2.shown.scenariosBody[i]
               IN  C19_InBand(row.status, row.bar, row.pts, day2.shown.threshold)
        \* every number of points against the typed threshold
        /\ \A points \in 0..(3 * MaxDay2Rounds) :
               C19_InBand(getDay2Status(points, day2.thresholdInput),
                          buildPointsBarHTML(points, day2.thresholdInput),
                          points, day2.thresholdInput)

\* A rendered table with a row in each of the five bands, one of them exact.
C19_Witness ==
    /\ day2.active /\ ~day2.shown.resultsHidden
    /\ \A band \in {"Safe", "Day 2", "Close", "Tough", "Eliminated"} :
           \E i \in 1..Len(day2.shown.scenariosBody) :
               day2.shown.scenariosBody[i].status.text = band
    /\ \E i \in 1..Len(day2.shown.scenariosBody) :
           LET row == day2.shown.scenariosBody[i]
           IN  /\ row.pts = day2.shown.threshold
               /\ row.bar.label.kind = "Exact"
               /\ row.status.text = "Day 2"

(***************************************************************************)
(* C20.  estimateOMW walk: for each played round in order, with cumWins    *)
(* and cumLosses counted over the earlier played rounds, the per-round     *)
(* estimate is clamp(0.5 + (cumWins - cumLosses)/(2*totalRounds) - 0.04)   *)
(* for a win, the same with +0.04 for a loss and with no offset for a      *)
(* draw, clamped to [0.33, 1]; the result is the arithmetic mean of these. *)
(* For [Win, Win, Loss, Unplayed, Unplayed] with totalRounds = 5 the       *)
(* per-round estimates are 0.46, 0.56, 0.74 and the result is their mean   *)
(* (about 0.5867).                                                         *)
(***************************************************************************)
\* The positions of the played rounds and the position of the k-th of them.
C20_Played(results) == {i \in 1..Len(results) : results[i] # Null}

C20_KthPlayed(results, k) ==
    CHOOSE i \in C20_Played(results) :
        Cardinality({j \in C20_Played(results) : j <= i}) = k

C20_Earlier(results, i, x) ==
    Cardinality({j \in 1..(i - 1) : results[j] = x})

\* The estimate of the round at position i, as a numerator over 100*totalRounds.
C20_PerRound(results, i, totalRounds) ==
    LET balance == C20_Earlier(results, i, "W") - C20_Earlier(results, i, "L")
        offset == CASE results[i] = "W" -> -4 * totalRounds
                    [] results[i] = "L" -> 4 * totalRounds
                    [] results[i] = "D" -> 0
        x == 50 * totalRounds + 50 * balance + offset
    IN  IF x < 33 * totalRounds THEN 33 * totalRounds
        ELSE IF x > 100 * totalRounds THEN 100 * totalRounds
        ELSE x

RECURSIVE C20_Total(_, _, _)
C20_Total(results, totalRounds, k) ==
    IF k = 0 THEN 0
    ELSE C20_PerRound(results, C20_KthPlayed(results, k), totalRounds)
             + C20_Total(results, totalRounds, k - 1)

C20_WalkAndMean ==
    (omw.active /\ omw.returned /\ C20_Played(omw.results) # {}) =>
        LET n == Cardinality(C20_Played(omw.results))
            T == omw.totalRounds
        IN  /\ Len(omw.walk.opponentMWs) = n
            /\ \A k \in 1..n :
                   omw.walk.opponentMWs[k] =
                       C20_PerRound(omw.results, C20_KthPlayed(omw.results, k), T)
            /\ omw.result.given
            \* result = (sum of the estimates) / n
            /\ omw.result.num * (n * 100 * T)
                   = C20_Total(omw.results, T, n) * omw.result.den
            /\ (omw.results = <<"W", "W", "L", Null, Null>> /\ T = 5) =>
                   /\ omw.walk.opponentMWs = <<46 * 5, 56 * 5, 74 * 5>>
                   \* (0.46 + 0.56 + 0.74) / 3 = 176/300
                   /\ omw.result.num * 300 = 176 * omw.result.den

\* The example of the claim: W, W, L and two unplayed rounds out of five.
C20_Witness ==
    /\ omw.active /\ omw.returned
    /\ omw.results = <<"W", "W", "L", Null, Null>>
    /\ omw.totalRounds = 5
    /\ omw.walk.opponentMWs = <<230, 280, 370>>
    /\ omw.result.given
    \* 0.5866 < result < 0.5868
    /\ omw.result.num * 10000 > 5866 * omw.result.den
    /\ omw.result.num * 10000 < 5868 * omw.result.den

\* A walk with an unplayed round between played ones, a draw and a clamped loss.
C20_WitnessGapDrawClamp ==
    /\ omw.active /\ omw.returned
    /\ omw.totalRounds = 1
    /\ omw.results = <<"W", Null, "D", "L">>
    /\ omw.walk.raw = <<46, 100, 104>>
    /\ omw.walk.opponentMWs = <<46, 100, 100>>

(***************************************************************************)
(* C21.  estimateOMW skips unplayed entries wherever they occur: for every *)
(* result sequence with at least one played round, estimateOMW(results,    *)
(* totalRounds) equals estimateOMW of the same sequence with all unplayed  *)
(* entries removed, and estimateOMW does not modify the sequence it is     *)
(* given.                                                                  *)
(***************************************************************************)
C21_WithoutUnplayed(results) == SelectSeq(results, LAMBDA r : r # Null)

C21_SameAsWithoutUnplayed ==
    (omw.active /\ omw.returned /\ C9_Played(omw.results)) =>
        LET compact == EstimateOMWLocals(C21_WithoutUnplayed(omw.results), omw.totalRounds)
        IN  /\ omw.result.given
            /\ omw.result = compact.result
            /\ omw.walk.opponentMWs = compact.walk.opponentMWs

\* A call of estimateOMW leaves its arguments as they were.
C21_ArgumentsKept ==
    omw.active => (omw'.results = omw.results /\ omw'.totalRounds = omw.totalRounds)

C21_SkipsUnplayed == []C21_SameAsWithoutUnplayed /\ [][C21_ArgumentsKept]_vars

\* Unplayed entries at the start, in the middle and at the end of the sequence.
C21_Witness ==
    /\ omw.active /\ omw.returned
    /\ omw.results = <<Null, "W", Null, "L", Null>>
    /\ omw.totalRounds = 4
    /\ omw.result = estimateOMW(<<"W", "L">>, 4)
    /\ omw.walk.opponentMWs = <<46 * 4, 54 * 4 + 50>>

(***************************************************************************)
(* C22.  Draws are neutral in the OMW bracket walk: a draw leaves cumWins  *)
(* and cumLosses unchanged, so the bracket strength used for the round     *)
(* after a draw equals the one used for the draw itself, and a played      *)
(* sequence consisting only of draws yields exactly 0.5 for any            *)
(* totalRounds >= 1.                                                       *)
(***************************************************************************)
\* The bracket strength used for the k-th played round, read back from the
\* unclamped estimate of that round (numerator over 100*totalRounds).
C22_BracketStrength(played, raw, k, totalRounds) ==
    raw[k] - (CASE played[k] = "W" -> -4 * totalRounds
                [] played[k] = "L" -> 4 * totalRounds
                [] played[k] = "D" -> 0)

C22_OnlyDraws(played) == Len(played) >= 1 /\ \A k \in 1..Len(played) : played[k] = "D"

C22_DrawsAreNeutral ==
    (omw.active /\ omw.returned /\ C9_Played(omw.results)) =>
        LET played == C21_WithoutUnplayed(omw.results)
            T == omw.totalRounds
        IN  /\ Len(omw.walk.raw) = Len(played)
            \* the counters at the end count the wins and the losses, not the draws
            /\ omw.walk.cumWins = C10_Count(played, "W")
            /\ omw.walk.cumLosses = C10_Count(played, "L")
            /\ \A k \in 1..(Len(played) - 1) :
                   played[k] = "D" =>
                       C22_BracketStrength(played, omw.walk.raw, k + 1, T)
                           = C22_BracketStrength(played, omw.walk.raw, k, T)
            /\ C22_OnlyDraws(played) =>
                   (omw.result.given /\ omw.result.num * 2 = omw.result.den)

\* A draw between a win and a loss: the loss is estimated from the bracket of the draw.
C22_Witness ==
    /\ omw.active /\ omw.returned
    /\ omw.results = <<"W", "D", "L">>
    /\ omw.totalRounds = 5
    /\ omw.walk.raw = <<46 * 5, 60 * 5, 64 * 5>>
    /\ omw.walk.cumWins = 1 /\ omw.walk.cumLosses = 1

\* Draws only, with an unplayed round among them: one half.
C22_WitnessOnlyDraws ==
    /\ omw.active /\ omw.returned
    /\ omw.results = <<"D", Null, "D", "D">>
    /\ omw.totalRounds = 3
    /\ omw.result = OMW(3 * 150, 3 * 300)

(***************************************************************************)
(* C23.  Round tracker frame conditions: onRoundClear for round r sets     *)
(* rounds r..end to unplayed and leaves every round before r unchanged;    *)
(* onRoundBtnClick for round r changes only entry r; neither changes the   *)
(* length of roundResults, which equals getRounds(players) after any       *)
(* buildRoundTracker with players >= 2.                                    *)
(***************************************************************************)
C23_ClearFrame(round) ==
    ClickRoundClear(round) =>
        /\ Len(top8'.roundResults) = Len(top8.roundResults)
        /\ \A i \in 1..Len(top8.roundResults) :
               top8'.roundResults[i] = (IF i >= round THEN Null ELSE top8.roundResults[i])

C23_BtnFrame(round, result) ==
    ClickRoundBtn(round, result) =>
        /\ Len(top8'.roundResults) = Len(top8.roundResults)
        /\ top8'.roundResults[round] = result
        /\ \A i \in 1..Len(top8.roundResults) :
               i # round => top8'.roundResults[i] = top8.roundResults[i]

C23_ClickFrames ==
    \A round \in 1..Len(top8.grid) :
        /\ C23_ClearFrame(round)
        /\ \A result \in {"W", "L", "D"} : C23_BtnFrame(round, result)

\* While the tracker is in use with 2 or more players, every handler has ended with
\* buildRoundTracker, and roundResults has one entry per round.
C23_OneEntryPerRound ==
    (OnTrackerPage /\ top8.inProgress /\ top8.playersInput >= 2) =>
        /\ Len(top8.roundResults) = getRounds(top8.playersInput)
        /\ Len(top8.grid) = Len(top8.roundResults)

C23_TrackerFrames == []C23_OneEntryPerRound /\ [][C23_ClickFrames]_vars

\* Rounds 2 and 3 were cleared while the players field read 1: the rows still
\* show the three results that had been entered, round 1 kept its result.
C23_Witness ==
    /\ OnTrackerPage /\ top8.inProgress
    /\ top8.playersInput = 1
    /\ top8.roundResults = <<"W", Null, Null>>
    /\ \A r \in 1..3 : top8.grid[r].filled
    /\ top8.recordDisplay.wins = 1 /\ top8.recordDisplay.played = 1

\* Three rounds for 8 players, one of them played, the rows rendered from them.
C23_WitnessEightPlayers ==
    /\ OnTrackerPage /\ top8.inProgress
    /\ top8.playersInput = 8
    /\ top8.roundResults = <<"D", Null, Null>>
    /\ top8.grid = RenderRows(top8.roundResults)

(***************************************************************************)
(* C24.  Top 8 in-progress strategy: minWinsNeeded is the smallest w in    *)
(* [0, remaining] such that top8Probability(wins+w, losses,                *)
(* draws+(remaining-w)) >= 75 computed with the same OMW estimate as       *)
(* drawAllProb and winAllProb, and -1 when no such w exists;               *)
(* minWinsNeeded = 0 exactly when drawAllProb >= 75.                       *)
(***************************************************************************)
\* The OMW estimate of a strategy calculation: the page without tracker has none.
C24_OmwEstimate(variant, c) ==
    IF variant = "part_000" THEN estimateOMW(c.roundResults, c.totalRounds) ELSE NoOMW

\* The probability of winning w of the remaining rounds and drawing the others.
C24_Prob(variant, c, w) ==
    IF variant = "part_000"
    THEN estimateTop8Probability(c.currentWins + w, c.currentLosses,
                                 c.currentDraws + (c.remaining - w),
                                 c.totalRounds, c.numPlayers, C24_OmwEstimate(variant, c))
    ELSE script_estimateTop8Probability(c.currentWins + w, c.currentLosses,
                                        c.currentDraws + (c.remaining - w),
                                        c.totalRounds, c.numPlayers)

C24_StrategyShown == top8.active /\ top8.shown.strategy.verdict.kind # "none"

C24_MinWinsNeeded ==
    C24_StrategyShown =>
        LET c == top8.shown.strategy.calc
            v == top8.variant
            m == c.minWinsNeeded
        IN  /\ c.remaining >= 1
            /\ c.drawAllProb = C24_Prob(v, c, 0)
            /\ c.winAllProb = C24_Prob(v, c, c.remaining)
            /\ m \in -1..c.remaining
            /\ m >= 0 => (/\ C24_Prob(v, c, m) >= 75
                          /\ \A w \in 0..(m - 1) : C24_Prob(v, c, w) < 75)
            /\ m = -1 => \A w \in 0..c.remaining : C24_Prob(v, c, w) < 75
            /\ (m = 0) <=> (c.drawAllProb >= 75)

\* 12 players, L then W, two rounds left: with the OMW estimate of 0.4375 no
\* number of wins reaches 75 (winning both gives 67), without it two wins would.
C24_Witness ==
    /\ OnTrackerPage /\ C24_StrategyShown
    /\ top8.shown.strategy.calc.numPlayers = 12
    /\ top8.shown.strategy.calc.roundResults = <<"L", "W", Null, Null>>
    /\ top8.shown.strategy.calc.omwEstimate = OMW(350, 800)
    /\ top8.shown.strategy.calc.minWinsNeeded = -1
    /\ top8.shown.strategy.calc.winAllProb = 67
    /\ estimateTop8Probability(3, 1, 0, 4, 12, NoOMW) >= 75

\* A search that stops after the first step, on either page.
C24_WitnessSearchStops(variant, m) ==
    /\ top8.active /\ top8.variant = variant /\ C24_StrategyShown
    /\ top8.shown.strategy.calc.minWinsNeeded = m
    /\ top8.shown.strategy.calc.remaining > m

C24_WitnessTracker == C24_WitnessSearchStops("part_000", 1)
C24_WitnessScript == C24_WitnessSearchStops("script.js", 2)
C24_WitnessDrawOut == C24_WitnessSearchStops("part_000", 0)

(***************************************************************************)
(* C25.  Round-tracker variant, in-progress mode: after any sequence of    *)
(* player-count edits (updateRoundsDisplay), round clicks, round clears    *)
(* and in-progress toggles, the wins/losses/draws that calculate() reads   *)
(* from the synced inputs equal the numbers of W, L and D entries          *)
(* currently in roundResults, so the record and the OMW estimate of one    *)
(* calculation are derived from the same rounds.                           *)
(***************************************************************************)
C25_RecordOf(roundResults) ==
    <<C10_Count(roundResults, "W"), C10_Count(roundResults, "L"),
      C10_Count(roundResults, "D")>>

C25_InputsMatchTracker ==
    (OnTrackerPage /\ top8.inProgress) =>
        <<top8.winsInput, top8.lossesInput, top8.drawsInput>>
            = C25_RecordOf(top8.roundResults)

\* The same for a rendered strategy card: its record is the record of the rounds
\* its OMW estimate was computed from.
C25_RenderedFromSameRounds ==
    (OnTrackerPage /\ top8.shown.strategy.verdict.kind # "none") =>
        LET c == top8.shown.strategy.calc
        IN  <<c.currentWins, c.currentLosses, c.currentDraws>> = C25_RecordOf(c.roundResults)

\* The inputs do match while the number of rounds has never been lowered below
\* the rounds entered: three results for 8 players.
C25_WitnessSynced ==
    /\ OnTrackerPage /\ top8.inProgress
    /\ top8.playersInput = 8
    /\ top8.roundResults = <<"W", "L", "D">>
    /\ <<top8.winsInput, top8.lossesInput, top8.drawsInput>> = <<1, 1, 1>>

(***************************************************************************)
(* C26.  Round-tracker variant, one in-progress calculation: every final   *)
(* record that appears both as a row of the remaining-rounds scenario      *)
(* table and as a row of the all-records table is shown with the same      *)
(* Top 8 probability in both tables.                                       *)
(***************************************************************************)
\* The strategy card and the results card on the page come from one calculation.
C26_OneInProgressCalculation ==
    /\ OnTrackerPage
    /\ ~top8.shown.resultsHidden /\ ~top8.shown.strategyHidden
    /\ top8.shown.results.partial
    /\ top8.shown.results.numPlayers = top8.shown.strategy.calc.numPlayers
    /\ top8.shown.results.record = <<top8.shown.strategy.calc.currentWins,
                                     top8.shown.strategy.calc.currentLosses,
                                     top8.shown.strategy.calc.currentDraws>>

C26_SameFinalRecord(scenarioRow, recordRow) ==
    <<scenarioRow.finalW, scenarioRow.finalL, scenarioRow.finalD>>
        = <<recordRow.wins, recordRow.losses, recordRow.draws>>

C26_TablesAgree ==
    C26_OneInProgressCalculation =>
        \A i \in 1..Len(top8.shown.strategy.scenariosBody) :
            \A j \in 1..Len(top8.shown.results.thresholdsBody) :
                C26_SameFinalRecord(top8.shown.strategy.scenariosBody[i],
                                    top8.shown.results.thresholdsBody[j])
                    => top8.shown.strategy.scenariosBody[i].prob
                           = top8.shown.results.thresholdsBody[j].prob

\* 12 players, L then W: the final record 3-1-0 is at 67 in the scenario table
\* and at 75 in the all-records table.
C26_WitnessDisagree ==
    /\ C26_OneInProgressCalculation
    /\ top8.shown.strategy.calc.roundResults = <<"L", "W", Null, Null>>
    /\ \E i \in 1..Len(top8.shown.strategy.scenariosBody) :
           \E j \in 1..Len(top8.shown.results.thresholdsBody) :
               /\ C26_SameFinalRecord(top8.shown.strategy.scenariosBody[i],
                                      top8.shown.results.thresholdsBody[j])
               /\ top8.shown.results.thresholdsBody[j].wins = 3
               /\ top8.shown.strategy.scenariosBody[i].prob = 67
               /\ top8.shown.results.thresholdsBody[j].prob = 75

(***************************************************************************)
(* C27.  Day 2 calculate(): the verdict agrees with the scenario table of  *)
(* the same calculation: the verdict is 'mathematically eliminated' if and *)
(* only if no enumerated scenario row has final points >= threshold, and   *)
(* 'already qualified' if and only if every enumerated scenario row has    *)
(* final points >= threshold; a row's status is Safe or Day 2 exactly when *)
(* its points >= threshold.                                                *)
(***************************************************************************)
C27_VerdictAgreesWithTable ==
    (day2.active /\ ~day2.shown.resultsHidden) =>
        LET rows == day2.shown.scenariosBody
            threshold == day2.shown.threshold
            kind == day2.shown.verdict.kind
        IN  /\ Len(rows) >= 1
            /\ (kind = "eliminated")
                   <=> (\A i \in 1..Len(rows) : rows[i].pts < threshold)
            /\ (kind = "alreadyQualified")
                   <=> (\A i \in 1..Len(rows) : rows[i].pts >= threshold)
            /\ \A i \in 1..Len(rows) :
                   (rows[i].status.text \in {"Safe", "Day 2"}) <=> (rows[i].pts >= threshold)

\* Eliminated with rounds left: the best row of the table stays below the threshold.
C27_Witness ==
    /\ day2.active /\ ~day2.shown.resultsHidden
    /\ day2.shown.verdict.kind = "eliminated"
    /\ day2.shown.calc.remaining = 2
    /\ Len(day2.shown.scenariosBody) = 6
    /\ \E i \in 1..Len(day2.shown.scenariosBody) :
           /\ day2.shown.scenariosBody[i].isAllWin
           /\ day2.shown.scenariosBody[i].pts = day2.shown.threshold - 1

\* Already qualified with rounds left: the row that loses them all is at the threshold.
C27_WitnessQualified ==
    /\ day2.active /\ ~day2.shown.resultsHidden
    /\ day2.shown.verdict.kind = "alreadyQualified"
    /\ day2.shown.calc.remaining = 2
    /\ \E i \in 1..Len(day2.shown.scenariosBody) :
           /\ day2.shown.scenariosBody[i].extraLosses = 2
           /\ day2.shown.scenariosBody[i].pts = day2.shown.threshold
           /\ day2.shown.scenariosBody[i].status.text = "Day 2"

(***************************************************************************)
(* C28.  Top 8 in-progress strategy: when the verdict is 'must win at      *)
(* least N', N >= 1, the scenario with N extra wins and the rest drawn has *)
(* probability >= 75, and every remaining-round scenario with fewer than N *)
(* extra wins (any mix of draws and losses) has probability < 75 under the *)
(* same OMW estimate.                                                      *)
(***************************************************************************)
C28_MustWinAtLeast ==
    (OnTrackerPage /\ top8.shown.strategy.verdict.kind = "mustWinAtLeast") =>
        LET c == top8.shown.strategy.calc
            rows == top8.shown.strategy.scenariosBody
            N == c.minWinsNeeded
        IN  /\ N \in 1..c.remaining
            \* the row with N wins and the rest drawn
            /\ \E i \in 1..Len(rows) :
                   /\ rows[i].extraWins = N /\ rows[i].extraLosses = 0
                   /\ rows[i].extraDraws = c.remaining - N
                   /\ rows[i].prob >= 75
            \* every row with fewer wins
            /\ \A i \in 1..Len(rows) : rows[i].extraWins < N => rows[i].prob < 75
            \* every way to finish the remaining rounds with fewer wins
            /\ \A w \in 0..(N - 1) :
                   \A l \in 0..(c.remaining - w) :
                       estimateTop8Probability(c.currentWins + w, c.currentLosses + l,
                                               c.currentDraws + (c.remaining - w - l),
                                               c.totalRounds, c.numPlayers, c.omwEstimate) < 75

\* Two wins needed out of three rounds with an OMW estimate in use; the table
\* has a row with one win and two draws, below 75.
C28_Witness ==
    /\ OnTrackerPage /\ top8.shown.strategy.verdict.kind = "mustWinAtLeast"
    /\ top8.shown.strategy.calc.minWinsNeeded = 2
    /\ top8.shown.strategy.calc.remaining = 3
    /\ top8.shown.strategy.calc.omwEstimate.given
    /\ \E i \in 1..Len(top8.shown.strategy.scenariosBody) :
           LET row == top8.shown.strategy.scenariosBody[i]
           IN  row.extraWins = 1 /\ row.extraDraws = 2 /\ row.prob < 75 /\ row.prob > 0

(***************************************************************************)
(* C29.  Top 8 estimator is monotonically non-decreasing in the OMW        *)
(* estimate: for a fixed record, totalRounds and numPlayers, omw1 <= omw2  *)
(* implies top8Probability(..., omw1) <= top8Probability(..., omw2), and   *)
(* the 'good tiebreakers' / 'weak tiebreakers' label shown with the        *)
(* estimate is attached only to estimates whose adjustment in the          *)
(* tiebreaker zone is positive / negative respectively.                    *)
(***************************************************************************)
\* a <= b for two given estimates
C29_AtMost(a, b) == a.num * b.den <= b.num * a.den

C29_MonotoneInOmw ==
    (EstReturned /\ est.omwEstimate.given) =>
        LET withoutOmw == estimateTop8Probability(est.wins, est.losses, est.draws,
                                                  est.totalRounds, est.numPlayers, NoOMW)
            label == est.omwDisplay.label
        IN  /\ \A k \in OmwHundredths :
                   LET other == estimateTop8Probability(est.wins, est.losses, est.draws,
                                    est.totalRounds, est.numPlayers, OMW(k, 100))
                   IN  /\ C29_AtMost(est.omwEstimate, OMW(k, 100))
                           => est.locals.result <= other
                       /\ C29_AtMost(OMW(k, 100), est.omwEstimate)
                           => other <= est.locals.result
            /\ label \in {"good tiebreakers", "weak tiebreakers", "average tiebreakers"}
            /\ label = "good tiebreakers" =>
                   /\ \A diff \in -2..0 : OmwAdjustment(est.omwEstimate, diff) > 0
                   /\ est.locals.adjusted => est.locals.result > withoutOmw
            /\ label = "weak tiebreakers" =>
                   /\ \A diff \in -2..0 : OmwAdjustment(est.omwEstimate, diff) < 0
                   /\ est.locals.adjusted => est.locals.result < withoutOmw
            /\ ~est.locals.adjusted => est.locals.result = withoutOmw

\* An estimate of 0.51 at the threshold: labelled good, 80 instead of 75.
C29_Witness ==
    /\ EstReturned
    /\ est.omwEstimate = OMW(51, 100)
    /\ est.locals.adjusted /\ est.locals.diff = 0
    /\ est.locals.result = 80
    /\ est.omwDisplay.label = "good tiebreakers"
    /\ estimateTop8Probability(est.wins, est.losses, est.draws,
                               est.totalRounds, est.numPlayers, OMW(56, 100)) = 85

\* An estimate of 0.44 one point below the threshold: labelled weak, 45 instead of 50.
C29_WitnessWeak ==
    /\ EstReturned
    /\ est.omwEstimate = OMW(44, 100)
    /\ est.locals.adjusted /\ est.locals.diff = -1
    /\ est.locals.result = 45
    /\ est.omwDisplay.label = "weak tiebreakers"

(***************************************************************************)
(* C30.  Top 8 rendering: for every probability the estimator can return   *)
(* (with or without OMW adjustment), the bar style tier from getProbClass  *)
(* (high/likely/medium/low/none) and the status badge tier from            *)
(* getStatusInfo (Locked In/Likely/Possible/Unlikely/Out) are the same one *)
(* of the 5 ordered tiers.                                                 *)
(***************************************************************************)
C30_BarTier(probClass) ==
    CASE probClass = "prob-high" -> 1
      [] probClass = "prob-likely" -> 2
      [] probClass = "prob-medium" -> 3
      [] probClass = "prob-low" -> 4
      [] probClass = "prob-none" -> 5

C30_BadgeTier(text) ==
    CASE text = "Locked In" -> 1
      [] text = "Likely" -> 2
      [] text = "Possible" -> 3
      [] text = "Unlikely" -> 4
      [] text = "Out" -> 5

C30_RowTiersAgree(rows) ==
    \A i \in 1..Len(rows) :
        C30_BarTier(rows[i].probClass) = C30_BadgeTier(rows[i].status.text)

C30_SameTier ==
    top8.active =>
        /\ C30_RowTiersAgree(top8.shown.results.thresholdsBody)
        /\ C30_RowTiersAgree(top8.shown.strategy.scenariosBody)

\* The probabilities on which the two functions fall into different tiers.
C30_TiersDiffer(prob) ==
    \/ prob >= 85 /\ prob < 90
    \/ prob >= 25 /\ prob < 30
    \/ prob >= 3 /\ prob < 5

\* Apart from those, the tiers of every rendered row agree.
C30_SameTierElsewhere ==
    top8.active =>
        \A rows \in {top8.shown.results.thresholdsBody, top8.shown.strategy.scenariosBody} :
            \A i \in 1..Len(rows) :
                (C30_BarTier(rows[i].probClass) # C30_BadgeTier(rows[i].status.text))
                    <=> C30_TiersDiffer(rows[i].prob)

\* A row of the all-records table at 25: bar style 'low', badge 'Possible'.
C30_WitnessDisagree ==
    /\ top8.active /\ ~top8.shown.resultsHidden
    /\ \E i \in 1..Len(top8.shown.results.thresholdsBody) :
           LET row == top8.shown.results.thresholdsBody[i]
           IN  /\ row.prob = 25
               /\ row.probClass = "prob-low"
               /\ row.status.text = "Possible"

====
